---- MODULE Spec2Model ----
(***************************************************************************)
(* Model of the autoplot IPython extension (man-group/jupyterlab-autoplot): *)
(* the Trace lifecycle (plotter/trace.py), the graph view                   *)
(* (Plotter / PlotterModel, plotter/__init__.py), the dtale view            *)
(* (dtaler/__init__.py) and the ViewManager (view_manager/__init__.py).     *)
(*                                                                         *)
(* Specifications:                                                         *)
(*   Spec       the graph view: update cycles, draw, ignore/show, freeze   *)
(*   SpecTrace  the lifetime of one Trace object                           *)
(*   SpecDown   Trace._get_downsampled as a function of (length, max)      *)
(*   SpecDtale  the dtale view against the external dtale store            *)
(*   SpecDraw   the dtale view: update cycles followed by draw              *)
(*   SpecManager  the ViewManager dispatching to the graph and dtale views *)
(*   SpecFlag   the graph view on snapshots that change the data of a trace  *)
(*              and add or bring back another one in the same cycle         *)
(*   SpecClassify  is_plottable, applied by the first update cycle of the   *)
(*              graph view to one value of the namespace                    *)
(***************************************************************************)
EXTENDS Integers, Sequences, FiniteSets, TLC

VARIABLES
    \* ---- one Trace object (SpecTrace, SpecDown)
    tr,              \* the Trace under test, or None
    sampled,         \* SpecDown: the value returned by _get_downsampled, or None
    raised,          \* TRUE when the last operation ended with an exception
    \* ---- Plotter (Spec)
    traces,          \* Plotter._traces: the Trace objects, in insertion order
    force_shown,     \* Plotter.force_shown
    changed,         \* Plotter._changed
    frozen,          \* Plotter._frozen
    max_series_length, \* Plotter._max_series_length
    ylabel,          \* Plotter._ylabel, or NoName
    width,           \* Plotter._width
    height,          \* Plotter._height
    \* ---- PlotterModel (Spec)
    series_dict,     \* PlotterModel._series_dict: name -> series
    plotted_dfs,     \* PlotterModel._plotted_dfs: dataframe name -> set of column trace names
    ns_with_series,  \* PlotterModel._ns_with_series
    \* ---- DTaler (SpecDtale)
    tracked,         \* DTaler._tracked: name -> [pdf, data_id]
    ignored,         \* DTaler._ignored
    dtaler_frozen,   \* DTaler._frozen
    ignore_next,     \* DTaler._ignore_next
    show_next,       \* DTaler._show_next
    new,             \* DTaler._new
    force_show,      \* DTaler._force_show
    updated,         \* DTaler._updated, as the set of its elements
    deleted,         \* DTaler._deleted, as the set of its elements
    first_show,      \* DTaler._first_show
    instances,       \* the data ids of the live instances of the dtale store
    output,          \* the AutoplotDisplay widget: its data_id (set by the
                     \* frontend) and what the last call of DTaler.draw
                     \* displayed in it
    lost,            \* history: the names whose instance the user deleted in
                     \* dtale while they were tracked, until an update cycle
                     \* forgets the name or consumes a --show of it
    \* ---- ViewManager (SpecManager)
    active,          \* ViewManager._active
    manager_changed, \* ViewManager._changed
    calls,           \* history: the number of calls made to the ViewManager
    \* ---- the host (Spec, SpecDtale, SpecManager)
    pandas_vars,     \* the snapshot given to the last update_variables call
    fresh,           \* TRUE when update_variables has run and no command has run
                     \* since (only draw calls)
    \* ---- the notification sink (Toast), shared by the specifications
    toasts           \* the toasts shown by the last operation, in order

traceVars == <<tr, sampled>>
graphVars == <<traces, force_shown, changed, frozen, max_series_length,
               ylabel, width, height,
               series_dict, plotted_dfs, ns_with_series, pandas_vars, fresh>>
dtalerVars == <<tracked, ignored, dtaler_frozen, ignore_next, show_next, new,
                force_show, updated, deleted, first_show, instances, lost, output>>
managerVars == <<active, manager_changed, calls>>
vars == <<traceVars, graphVars, dtalerVars, managerVars, raised, toasts>>

\* Python's None, where an object is expected and where a name is expected
None == [none |-> TRUE]
NoName == "None"

\* ------------------------------------------------------------------ bounds

\* SpecTrace: series lengths 2..MaxLen, max lengths 0..MaxSample
MaxLen == 4
MaxSample == 4
\* SpecDown: series lengths 2..DownMaxLen, max lengths 0..DownMaxSample
DownMaxLen == 11
DownMaxSample == 11
\* SpecManager: at most MaxCalls calls to the ViewManager
MaxCalls == 5

\* ------------------------------------------------------------ pandas values

\* np.iinfo(np.int64).max; the model only needs it above every series length
Int64Max == 2147483647

NaN == "nan"

\* A pd.Series: its index (timestamps as integers), its values, the dtype of the
\* values and the class of the index.
MkSeries(index, values) ==
    [class |-> "Series", index |-> index, values |-> values,
     dtype |-> "float64", indexType |-> "DatetimeIndex"]

\* A pd.DataFrame: its index and its columns, in order; each column has a name,
\* values and a dtype
MkDataFrame(index, columns) ==
    [class |-> "DataFrame", index |-> index, indexType |-> "DatetimeIndex", columns |-> columns]

MkColumn(name, values, dtype) == [name |-> name, values |-> values, dtype |-> dtype]

\* var[col]: the column as a series on the dataframe's index
ColumnSeries(var, col) ==
    [class |-> "Series", index |-> var.index, values |-> col.values,
     dtype |-> col.dtype, indexType |-> var.indexType]

\* len(series)
Length(series) == Len(series.values)

\* pd.Index.equals: same class, same elements in the same order
IndexEquals(a, b) == a.indexType = b.indexType /\ a.index = b.index

\* np.array_equal (equal_nan=False): same shape and a[i] == b[i] everywhere; NaN
\* compares unequal to everything, itself included
ArrayEqual(a, b) ==
    /\ Len(a) = Len(b)
    /\ \A i \in 1..Len(a) : a[i] = b[i] /\ a[i] # NaN

\* np.issubdtype(dtype, np.number)
NumberDtypes == {"float64", "int64", "complex128"}

\* np.isreal of one value: a complex value with a non-zero imaginary part is not
ComplexValues == {"1+1j"}

\* variable_utils._is_numeric
IsNumeric(series) ==
    /\ series.dtype \in NumberDtypes
    /\ \A i \in 1..Len(series.values) : series.values[i] \notin ComplexValues

\* variable_utils._is_datetime_indexed
IsDatetimeIndexed(series) == series.indexType = "DatetimeIndex"

\* variable_utils.is_plottable
IsPlottable(series) ==
    IsDatetimeIndexed(series) /\ IsNumeric(series) /\ Length(series) > 1

\* ------------------------------------------------------------------- toasts

\* Toast.show(message, toast_type) with one of the fixed messages of the package
Show(message, toast_type) ==
    [type |-> toast_type, name |-> message, old_size |-> 0, new_size |-> 0]

UnrecognisedVariable(var_name) ==
    [type |-> "unrecognised_variable", name |-> var_name, old_size |-> 0, new_size |-> 0]

InvalidMaxLength(max_length) ==
    [type |-> "invalid_max_length", name |-> "", old_size |-> max_length, new_size |-> 0]

DownsampleWarning(var_name, old_size, new_size) ==
    [type |-> "downsample_warning", name |-> var_name, old_size |-> old_size, new_size |-> new_size]

InvalidTraceColour(colour) ==
    [type |-> "invalid_trace_colour", name |-> colour, old_size |-> 0, new_size |-> 0]

NoDownsampleInfo(var_name) ==
    [type |-> "no_downsample_info", name |-> var_name, old_size |-> 0, new_size |-> 0]

\* ------------------------------------------------------------------- Trace

\* np.round: round half to even, here of the rational n / d (n >= 0, d > 0)
RoundTruncated(n, d) == n \div d

Round(n, d) ==
    LET q == n \div d
        r == n % d
    IN  IF 2 * r < d THEN q
        ELSE IF 2 * r > d THEN q + 1
        ELSE IF q % 2 = 0 THEN q ELSE q + 1

\* np.round(np.linspace(0, stop, num)).astype(int), as a sequence of positions
\* (0-based); linspace with num = 1 is [0.]
Linspace(stop, num) ==
    [i \in 1..num |-> IF num = 1 THEN 0 ELSE Round((i - 1) * stop, num - 1)]

\* series[index] with an integer array: the rows at those positions
Take(series, positions) ==
    [series EXCEPT !.index = [i \in 1..Len(positions) |-> series.index[positions[i] + 1]],
                   !.values = [i \in 1..Len(positions) |-> series.values[positions[i] + 1]]]

NoLine == [xdata |-> <<>>, ydata |-> <<>>]

\* Trace._get_downsampled: the series to display, the trace with its warning
\* flag updated, and the toasts shown
GetDownsampledNoSet(t) ==
    LET length == Length(t.series)
    IN  IF t.max_length < length
        THEN [tr |-> t,
              toasts |-> IF ~t.been_warned
                         THEN <<DownsampleWarning(t.name, length, t.max_length)>>
                         ELSE <<>>,
              out |-> Take(t.series, Linspace(length - 1, t.max_length))]
        ELSE [tr |-> [t EXCEPT !.been_warned = FALSE], toasts |-> <<>>, out |-> t.series]

GetDownsampledNoReset(t) ==
    LET length == Length(t.series)
    IN  IF t.max_length < length
        THEN [tr |-> [t EXCEPT !.been_warned = TRUE],
              toasts |-> IF ~t.been_warned
                         THEN <<DownsampleWarning(t.name, length, t.max_length)>>
                         ELSE <<>>,
              out |-> Take(t.series, Linspace(length - 1, t.max_length))]
        ELSE [tr |-> t, toasts |-> <<>>, out |-> t.series]

GetDownsampled(t) ==
    LET length == Length(t.series)
    IN  IF t.max_length < length
        THEN [tr |-> [t EXCEPT !.been_warned = TRUE],
              toasts |-> IF ~t.been_warned
                         THEN <<DownsampleWarning(t.name, length, t.max_length)>>
                         ELSE <<>>,
              out |-> Take(t.series, Linspace(length - 1, t.max_length))]
        ELSE [tr |-> [t EXCEPT !.been_warned = FALSE], toasts |-> <<>>, out |-> t.series]

\* Trace._build_line_with_props: series.index[1] raises IndexError when the
\* displayed series has a single point; the line is then not rebuilt
BuildLineWithProps(t) ==
    LET Built(d) ==
            IF Len(d.out.index) < 2
            THEN [tr |-> d.tr, toasts |-> d.toasts, raised |-> TRUE]
            ELSE [tr |-> [d.tr EXCEPT !.step_size = d.out.index[2] - d.out.index[1],
                                      !.line = [xdata |-> d.out.index,
                                                ydata |-> d.out.values]],
                  toasts |-> d.toasts, raised |-> FALSE]
    IN  Built(GetDownsampled(t))

\* The fields of a Trace before its line is built (Trace.__init__ up to the call
\* of _build_line_with_props)
NewTrace(name, series, index, max_length, visible, df_name) ==
    [name |-> name, series |-> series, df_name |-> df_name,
     colour |-> "C" \o ToString(index % 10), label |-> name,
     visible |-> visible, been_warned |-> FALSE,
     max_length |-> IF max_length = 0 THEN Int64Max ELSE max_length,
     step_size |-> 1, line |-> NoLine]

\* Trace.__init__
TraceInit(name, series, index, max_length, visible, df_name) ==
    BuildLineWithProps(NewTrace(name, series, index, max_length, visible, df_name))

\* Trace.update_series: [tr, toasts, raised, ret]
UpdateSeries(t, series) ==
    LET SetYData(d) ==
            [tr |-> [d.tr EXCEPT !.line.ydata = d.out.values],
             toasts |-> d.toasts, raised |-> FALSE, ret |-> TRUE]
        SetXData(d) ==
            [tr |-> [d.tr EXCEPT !.line.xdata = d.out.index],
             toasts |-> d.toasts, raised |-> FALSE, ret |-> TRUE]
        Rebuilt(b) ==
            [tr |-> b.tr, toasts |-> b.toasts, raised |-> b.raised, ret |-> ~b.raised]
        Compared(index_equal, values_equal, t1) ==
            IF index_equal /\ values_equal
            THEN [tr |-> t, toasts |-> <<>>, raised |-> FALSE, ret |-> FALSE]
            ELSE IF index_equal THEN SetYData(GetDownsampled(t1))
            ELSE IF values_equal THEN SetXData(GetDownsampled(t1))
            ELSE Rebuilt(BuildLineWithProps(t1))
    IN  Compared(IndexEquals(series, t.series),
                 ArrayEqual(series.values, t.series.values),
                 [t EXCEPT !.series = series])

\* Trace.update_max_series_length: [tr, toasts, raised, ret]
UpdateMaxSeriesLength(t, max_length_arg) ==
    LET Rebuilt(info, b) ==
            [tr |-> b.tr, toasts |-> info \o b.toasts, raised |-> b.raised,
             ret |-> ~b.raised]
        Sampled(max_length, length) ==
            IF t.max_length = max_length
            THEN [tr |-> t, toasts |-> <<>>, raised |-> FALSE, ret |-> FALSE]
            ELSE IF t.max_length >= length /\ max_length >= length
            THEN [tr |-> [t EXCEPT !.max_length = max_length],
                  toasts |-> <<>>, raised |-> FALSE, ret |-> FALSE]
            ELSE Rebuilt(IF t.max_length < length /\ length <= max_length
                         THEN <<NoDownsampleInfo(t.name)>> ELSE <<>>,
                         BuildLineWithProps([t EXCEPT !.max_length = max_length]))
    IN  Sampled(IF max_length_arg = 0 THEN Int64Max ELSE max_length_arg,
                Length(t.series))

\* matplotlib.colors.is_color_like, on the colour names the model uses
IsColorLike(colour) ==
    colour \in {"C" \o ToString(i) : i \in 0..9} \cup {"red", "blue", "black"}

\* Trace.update_colour: [tr, toasts, ret]
UpdateColour(t, colour) ==
    IF ~IsColorLike(colour)
    THEN [tr |-> t, toasts |-> <<InvalidTraceColour(colour)>>, ret |-> FALSE]
    ELSE IF t.colour = colour
    THEN [tr |-> t, toasts |-> <<>>, ret |-> FALSE]
    ELSE [tr |-> [t EXCEPT !.colour = colour], toasts |-> <<>>, ret |-> TRUE]

\* Trace.update_label: [tr, ret]
UpdateLabel(t, label) ==
    IF t.label = label
    THEN [tr |-> t, ret |-> FALSE]
    ELSE [tr |-> [t EXCEPT !.label = label], ret |-> TRUE]

\* Trace.update_visible: [tr, ret]
UpdateVisible(t, visible) ==
    IF t.visible = visible
    THEN [tr |-> t, ret |-> FALSE]
    ELSE [tr |-> [t EXCEPT !.visible = visible], ret |-> TRUE]

\* ------------------------------------------------------------------ Plotter
\*
\* The graph operators work on a record g of the fields of the Plotter and of
\* the PlotterModel, plus the toasts shown so far by the running handler and
\* the flag "an exception is propagating". A handler is the composition of the
\* operators its code calls, in order; once g.raised is set the rest of the
\* handler is skipped.

DEFAULT_MAX_SERIES_LENGTH == 1000

\* FigSize
MIN_WIDTH == 6
MAX_WIDTH == 20
DEFAULT_WIDTH == 13
MIN_HEIGHT == 3
MAX_HEIGHT == 15
DEFAULT_HEIGHT == 4

\* a dict with no key
EmptyDict == [k \in {} |-> None]

\* dict.pop(key) for a key that is present
Pop(dict, key) == [k \in (DOMAIN dict) \ {key} |-> dict[k]]

\* dict[key] = value
Store(dict, key, value) == [k \in (DOMAIN dict) \cup {key} |-> IF k = key THEN value ELSE dict[k]]

Raise(g) == [g EXCEPT !.raised = TRUE]

Emit(g, ts) == [g EXCEPT !.toasts = @ \o ts]

\* the keys of Plotter._traces
TraceNames(g) == {g.traces[i].name : i \in 1..Len(g.traces)}

Position(g, name) == CHOOSE i \in 1..Len(g.traces) : g.traces[i].name = name

\* Plotter.__getitem__ for a name that has a trace (KeyError otherwise, raised by
\* the callers below)
GetItem(g, name) == g.traces[Position(g, name)]

\* the Trace object of the name after one of its methods changed its fields
Mutate(g, name, t) == [g EXCEPT !.traces[Position(g, name)] = t]

\* Plotter.update_trace_series
UpdateTraceSeries(g, name, series) ==
    IF name \notin TraceNames(g)
    THEN Raise(g)
    ELSE LET Updated(r, g1) ==
                 IF r.raised THEN Raise(g1)
                 ELSE IF r.ret /\ r.tr.visible THEN [g1 EXCEPT !.changed = TRUE]
                 ELSE g1
             Returned(r) == Updated(r, Emit(Mutate(g, name, r.tr), r.toasts))
         IN  Returned(UpdateSeries(GetItem(g, name), series))

\* Plotter.add_trace
AddTraceVisibleWhenFrozen(g, name, series, df_name) ==
    IF name \in TraceNames(g)
    THEN LET Updated(g1) ==
                 IF g1.raised THEN g1
                 ELSE [Mutate(g1, name, UpdateVisible(GetItem(g1, name), ~g1.frozen).tr)
                          EXCEPT !.changed = ~g1.frozen]
         IN  Updated(UpdateTraceSeries(g, name, series))
    ELSE LET Built(r) ==
                 IF r.raised THEN Raise(Emit(g, r.toasts))
                 ELSE [Emit(g, r.toasts) EXCEPT !.traces = Append(@, r.tr),
                                                !.changed = ~g.frozen]
         IN  Built(TraceInit(name, series, Len(g.traces), g.max_series_length,
                             TRUE, df_name))

AddTrace(g, name, series, df_name) ==
    IF name \in TraceNames(g)
    THEN LET Updated(g1) ==
                 IF g1.raised THEN g1
                 ELSE [Mutate(g1, name, UpdateVisible(GetItem(g1, name), ~g1.frozen).tr)
                          EXCEPT !.changed = ~g1.frozen]
         IN  Updated(UpdateTraceSeries(g, name, series))
    ELSE LET Built(r) ==
                 IF r.raised THEN Raise(Emit(g, r.toasts))
                 ELSE [Emit(g, r.toasts) EXCEPT !.traces = Append(@, r.tr),
                                                !.changed = ~g.frozen]
         IN  Built(TraceInit(name, series, Len(g.traces), g.max_series_length,
                             ~g.frozen, df_name))

\* Plotter.update_trace_colour
UpdateTraceColour(g, name, colour) ==
    IF name \notin TraceNames(g)
    THEN Raise(g)
    ELSE LET Updated(r, g1) ==
                 IF r.ret /\ r.tr.visible THEN [g1 EXCEPT !.changed = TRUE] ELSE g1
             Returned(r) == Updated(r, Emit(Mutate(g, name, r.tr), r.toasts))
         IN  Returned(UpdateColour(GetItem(g, name), colour))

\* Plotter.update_trace_label
UpdateTraceLabel(g, name, label) ==
    IF name \notin TraceNames(g)
    THEN Raise(g)
    ELSE LET Updated(r) ==
                 IF r.ret /\ r.tr.visible
                 THEN [Mutate(g, name, r.tr) EXCEPT !.changed = TRUE]
                 ELSE Mutate(g, name, r.tr)
         IN  Updated(UpdateLabel(GetItem(g, name), label))

\* the loop of Plotter.update_max_series_length, from the i-th trace on
RECURSIVE UpdateTracesFrom(_, _, _)
UpdateTracesFrom(g, i, max_length) ==
    IF i > Len(g.traces) THEN g
    ELSE LET Updated(r, g1) ==
                 IF r.raised THEN Raise(g1)
                 ELSE UpdateTracesFrom(IF r.ret /\ r.tr.visible
                                       THEN [g1 EXCEPT !.changed = TRUE] ELSE g1,
                                       i + 1, max_length)
             Returned(r) == Updated(r, Emit([g EXCEPT !.traces[i] = r.tr], r.toasts))
         IN  Returned(UpdateMaxSeriesLength(g.traces[i], max_length))

\* Plotter.update_max_series_length
PlotterUpdateMaxSeriesLength(g, max_length) ==
    IF max_length < 0 THEN Emit(g, <<InvalidMaxLength(max_length)>>)
    ELSE IF g.max_series_length = max_length THEN g
    ELSE LET Updated(g1) ==
                 IF g1.raised THEN g1 ELSE [g1 EXCEPT !.max_series_length = max_length]
         IN  Updated(UpdateTracesFrom(g, 1, max_length))

\* Plotter.hide_trace
HideTraceKeepsForceShown(g, name) ==
    IF name \notin TraceNames(g)
    THEN Raise(g)
    ELSE LET Updated(v) ==
                 IF v.ret THEN [Mutate(g, name, v.tr) EXCEPT !.changed = TRUE] ELSE g
         IN  Updated(UpdateVisible(GetItem(g, name), FALSE))

HideTrace(g, name) ==
    IF name \notin TraceNames(g)
    THEN Raise(g)
    ELSE LET Updated(v) ==
                 IF v.ret
                 THEN [Mutate(g, name, v.tr) EXCEPT !.force_shown = @ \ {name},
                                                    !.changed = TRUE]
                 ELSE g
         IN  Updated(UpdateVisible(GetItem(g, name), FALSE))

\* Plotter.force_show_trace
ForceShowTrace(g, name) ==
    IF name \notin TraceNames(g)
    THEN Raise(g)
    ELSE LET Updated(v) ==
                 IF v.ret
                 THEN [Mutate(g, name, v.tr) EXCEPT !.force_shown = @ \cup {name},
                                                    !.changed = TRUE]
                 ELSE g
         IN  Updated(UpdateVisible(GetItem(g, name), TRUE))

\* Plotter.set_figure_width
SetFigureWidth(g, w) ==
    IF g.width # w THEN [g EXCEPT !.width = w, !.changed = TRUE] ELSE g

\* Plotter.set_figure_height
SetFigureHeight(g, h) ==
    IF g.height # h THEN [g EXCEPT !.height = h, !.changed = TRUE] ELSE g

\* Plotter.set_ylabel
PlotterSetYlabel(g, label) ==
    IF label = "" /\ g.ylabel # NoName
    THEN [g EXCEPT !.ylabel = NoName, !.changed = TRUE]
    ELSE IF g.ylabel # label
    THEN [g EXCEPT !.ylabel = label, !.changed = TRUE]
    ELSE g

\* Plotter.freeze
PlotterFreeze(g) ==
    [(IF ~g.frozen THEN Emit(g, <<Show("frozen", "info")>>) ELSE g) EXCEPT !.frozen = TRUE]

\* Plotter.defrost
PlotterDefrost(g) ==
    [(IF g.frozen THEN Emit(g, <<Show("defrosted", "info")>>) ELSE g) EXCEPT !.frozen = FALSE]

\* Plotter.get_visible
GetVisible(g) == {g.traces[i].name : i \in {j \in 1..Len(g.traces) : g.traces[j].visible}}

\* Plotter.plot, as far as the state of the Plotter goes: the figure is rebuilt
\* from the visible traces and the flag is reset
Plot(g, force) ==
    IF ~g.changed /\ ~force THEN g ELSE [g EXCEPT !.changed = FALSE]

\* ------------------------------------------------------------- PlotterModel

\* DF_COLUMN_FORMAT_STRING.format(df_name, col)
DF_COLUMN_FORMAT_STRING(df_name, col) == df_name \o " (" \o col \o ")"

\* PlotterModel._update_trace_if_changed. self[df_name] falls back to the series
\* store: a series has no set-like add, which is an error other than KeyError.
UpdateTraceIfChanged(g, name, series, df_name) ==
    LET Stored(g2) ==
            IF name \in DOMAIN g.series_dict
            THEN UpdateTraceSeries(g2, name, series)
            ELSE AddTrace(g2, name, series, df_name)
        Grouped(g1) ==
            IF g1.raised THEN g1
            ELSE Stored([g1 EXCEPT !.series_dict = Store(@, name, series)])
    IN  Grouped(IF df_name = NoName THEN g
                ELSE IF df_name \in DOMAIN g.plotted_dfs
                THEN [g EXCEPT !.plotted_dfs[df_name] = @ \cup {name}]
                ELSE IF df_name \in DOMAIN g.series_dict
                THEN Raise(g)
                ELSE [g EXCEPT !.plotted_dfs = Store(@, df_name, {name})])

\* the body of the loop of _delete_trace over the members of a group
HideAndPop(g, series_name) ==
    LET Hidden(g1) ==
            IF g1.raised THEN g1
            ELSE IF series_name \notin DOMAIN g1.series_dict THEN Raise(g1)
            ELSE [g1 EXCEPT !.series_dict = Pop(@, series_name)]
    IN  Hidden(HideTrace(g, series_name))

\* the loop of _delete_trace over the members still to visit. The order of a
\* Python set is not specified; the result depends on it only when a member
\* raises, which ends the loop.
RECURSIVE HideAndPopAll(_, _)
HideAndPopAll(g, names) ==
    IF names = {} \/ g.raised THEN g
    ELSE LET n == CHOOSE n \in names : TRUE
         IN  HideAndPopAll(HideAndPop(g, n), names \ {n})

\* PlotterModel._delete_trace
DeleteTraceKeepsEmptyGroup(g, name) ==
    IF name \in DOMAIN g.plotted_dfs
    THEN LET Popped(g1) ==
                 IF g1.raised THEN g1
                 ELSE [g1 EXCEPT !.plotted_dfs = Pop(@, name)]
         IN  Popped(HideAndPopAll(g, g.plotted_dfs[name]))
    ELSE LET Ungrouped(g1, df_name) ==
                 IF df_name = NoName THEN g1
                 ELSE IF df_name \notin DOMAIN g1.plotted_dfs THEN Raise(g1)
                 ELSE IF name \notin g1.plotted_dfs[df_name] THEN Raise(g1)
                 ELSE [g1 EXCEPT !.plotted_dfs[df_name] = @ \ {name}]
             Popped(g1) ==
                 IF g1.raised THEN g1 ELSE Ungrouped(g1, GetItem(g1, name).df_name)
         IN  Popped(HideAndPop(g, name))

DeleteTrace(g, name) ==
    IF name \in DOMAIN g.plotted_dfs
    THEN LET Popped(g1) ==
                 IF g1.raised THEN g1
                 ELSE [g1 EXCEPT !.plotted_dfs = Pop(@, name)]
         IN  Popped(HideAndPopAll(g, g.plotted_dfs[name]))
    ELSE LET Ungrouped(g1, df_name) ==
                 IF df_name = NoName THEN g1
                 ELSE IF df_name \notin DOMAIN g1.plotted_dfs THEN Raise(g1)
                 ELSE IF name \notin g1.plotted_dfs[df_name] THEN Raise(g1)
                 ELSE IF g1.plotted_dfs[df_name] = {name}
                 THEN [g1 EXCEPT !.plotted_dfs = Pop(@, df_name)]
                 ELSE [g1 EXCEPT !.plotted_dfs[df_name] = @ \ {name}]
             Popped(g1) ==
                 IF g1.raised THEN g1 ELSE Ungrouped(g1, GetItem(g1, name).df_name)
         IN  Popped(HideAndPop(g, name))

\* PlotterModel._add_trace_for_series: [g, ret]
AddTraceForSeriesKeepsGroup(g, name, var) ==
    IF ~(var.class = "Series" /\ IsPlottable(var))
    THEN [g |-> g, ret |-> FALSE]
    ELSE [g |-> UpdateTraceIfChanged(g, name, var, NoName), ret |-> TRUE]

AddTraceForSeries(g, name, var) ==
    IF ~(var.class = "Series" /\ IsPlottable(var))
    THEN [g |-> g, ret |-> FALSE]
    ELSE LET Cleared(g1) ==
                 [g |-> IF g1.raised THEN g1
                        ELSE UpdateTraceIfChanged(g1, name, var, NoName),
                  ret |-> TRUE]
         IN  Cleared(IF name \in DOMAIN g.plotted_dfs THEN DeleteTrace(g, name) ELSE g)

\* the loop of _add_traces_for_dataframe, from the i-th column on
RECURSIVE AddColumnsFrom(_, _, _, _)
AddColumnsFrom(g, name, var, i) ==
    IF i > Len(var.columns) \/ g.raised THEN g
    ELSE LET Column(series, series_name, g1) ==
                 IF IsPlottable(series)
                 THEN UpdateTraceIfChanged(g1, series_name, series, name)
                 ELSE IF series_name \in DOMAIN g1.series_dict
                 THEN DeleteTrace(g1, series_name)
                 ELSE g1
             Named(series, series_name) ==
                 Column(series, series_name,
                        [g EXCEPT !.ns_with_series = @ \cup {series_name}])
         IN  AddColumnsFrom(Named(ColumnSeries(var, var.columns[i]),
                                  DF_COLUMN_FORMAT_STRING(name, var.columns[i].name)),
                            name, var, i + 1)

\* PlotterModel._add_traces_for_dataframe: [g, ret]
AddTracesForDataframeKeepsSeries(g, name, var) ==
    IF var.class # "DataFrame"
    THEN [g |-> g, ret |-> FALSE]
    ELSE [g |-> AddColumnsFrom(g, name, var, 1), ret |-> TRUE]

AddTracesForDataframe(g, name, var) ==
    IF var.class # "DataFrame"
    THEN [g |-> g, ret |-> FALSE]
    ELSE [g |-> AddColumnsFrom(IF name \in DOMAIN g.series_dict
                               THEN DeleteTrace(g, name) ELSE g,
                               name, var, 1),
          ret |-> TRUE]

\* the loop of _add_traces_for_namespace_vars, from the i-th variable on
RECURSIVE AddVarsFrom(_, _, _)
AddVarsFrom(g, vs, i) ==
    IF i > Len(vs) \/ g.raised THEN g
    ELSE LET NotDataframe(g1, name, d) ==
                 IF d.ret THEN d.g
                 ELSE IF name \in DOMAIN g1.series_dict \/ name \in DOMAIN g1.plotted_dfs
                 THEN DeleteTrace(g1, name)
                 ELSE g1
             NotSeries(g1, name, var, s) ==
                 IF s.ret THEN s.g
                 ELSE NotDataframe(g1, name, AddTracesForDataframe(g1, name, var))
             Variable(g1, name, var) ==
                 NotSeries(g1, name, var, AddTraceForSeries(g1, name, var))
         IN  AddVarsFrom(Variable([g EXCEPT !.ns_with_series = @ \cup {vs[i][1]}],
                                  vs[i][1], vs[i][2]),
                         vs, i + 1)

\* PlotterModel._add_traces_for_namespace_vars
AddTracesForNamespaceVars(g, vs) ==
    AddVarsFrom([g EXCEPT !.ns_with_series = {}], vs, 1)

\* the loop of _hide_traces_for_deleted_vars over the names still to visit
RECURSIVE DeleteAll(_, _)
DeleteAll(g, names) ==
    IF names = {} \/ g.raised THEN g
    ELSE LET n == CHOOSE n \in names : TRUE
         IN  DeleteAll(DeleteTrace(g, n), names \ {n})

\* PlotterModel._hide_traces_for_deleted_vars
HideTracesForDeletedVarsSkipped(g) == g

HideTracesForDeletedVarsOfAllTraces(g) ==
    DeleteAll(g, (TraceNames(g) \ g.ns_with_series) \ g.force_shown)

HideTracesForDeletedVars(g) ==
    DeleteAll(g, (GetVisible(g) \ g.ns_with_series) \ g.force_shown)

\* PlotterModel.update_variables
UpdateVariables(g, vs) ==
    LET Added(g1) == IF g1.raised THEN g1 ELSE HideTracesForDeletedVars(g1)
    IN  Added(AddTracesForNamespaceVars(g, vs))

\* the loop of ignore_variable / show_variable over the members of a group
RECURSIVE HideAll(_, _)
HideAll(g, names) ==
    IF names = {} \/ g.raised THEN g
    ELSE LET n == CHOOSE n \in names : TRUE
         IN  HideAll(HideTrace(g, n), names \ {n})

RECURSIVE ForceShowAll(_, _)
ForceShowAll(g, names) ==
    IF names = {} \/ g.raised THEN g
    ELSE LET n == CHOOSE n \in names : TRUE
         IN  ForceShowAll(ForceShowTrace(g, n), names \ {n})

\* "except KeyError: toast.unrecognised_variable(var_name)"
ExceptKeyErrorSilent(g, var_name) == [g EXCEPT !.raised = FALSE]

ExceptKeyError(g, var_name) ==
    IF g.raised THEN [Emit(g, <<UnrecognisedVariable(var_name)>>) EXCEPT !.raised = FALSE]
    ELSE g

\* PlotterModel.ignore_variable (var_name without quotes)
IgnoreVariable(g, var_name) ==
    ExceptKeyError(IF var_name \in DOMAIN g.plotted_dfs
                   THEN HideAll(g, g.plotted_dfs[var_name])
                   ELSE HideTrace(g, var_name),
                   var_name)

\* PlotterModel.show_variable (var_name without quotes)
ShowVariable(g, var_name) ==
    ExceptKeyError(IF var_name \in DOMAIN g.plotted_dfs
                   THEN ForceShowAll(g, g.plotted_dfs[var_name])
                   ELSE ForceShowTrace(g, var_name),
                   var_name)

\* PlotterModel.change_colour (var_name and colour without quotes)
ChangeColour(g, var_name, colour) ==
    ExceptKeyError(UpdateTraceColour(g, var_name, colour), var_name)

\* trace_name.replace(var_name, display_name) for the name of a column trace of
\* the dataframe var_name; the column names of the model do not contain the
\* name of the variable, so the only occurrence is the leading one
Replace(trace_name, var_name, display_name) ==
    LET col == CHOOSE c \in {"a", "b"} : trace_name = DF_COLUMN_FORMAT_STRING(var_name, c)
    IN  DF_COLUMN_FORMAT_STRING(display_name, col)

\* the loop of rename_variable over the members of a group
RECURSIVE RenameAll(_, _, _, _)
RenameAll(g, names, var_name, display_name) ==
    IF names = {} \/ g.raised THEN g
    ELSE LET n == CHOOSE n \in names : TRUE
         IN  RenameAll(UpdateTraceLabel(g, n, Replace(n, var_name, display_name)),
                       names \ {n}, var_name, display_name)

\* PlotterModel.rename_variable (var_name and display_name without quotes)
RenameVariable(g, var_name, display_name) ==
    ExceptKeyError(IF var_name \in DOMAIN g.plotted_dfs
                   THEN RenameAll(g, g.plotted_dfs[var_name], var_name, display_name)
                   ELSE UpdateTraceLabel(g, var_name, display_name),
                   var_name)

\* PlotterModel.set_plot_width
SetPlotWidth(g, w) ==
    IF w < MIN_WIDTH
    THEN SetFigureWidth(Emit(g, <<Show("Figure width cannot be less than "
                                         \o ToString(MIN_WIDTH), "info")>>), MIN_WIDTH)
    ELSE IF w > MAX_WIDTH
    THEN SetFigureWidth(Emit(g, <<Show("Figure width cannot be greater than "
                                         \o ToString(MAX_WIDTH), "info")>>), MAX_WIDTH)
    ELSE SetFigureWidth(g, w)

\* PlotterModel.set_plot_height
SetPlotHeight(g, h) ==
    IF h < MIN_HEIGHT
    THEN SetFigureHeight(Emit(g, <<Show("Figure height cannot be less than "
                                          \o ToString(MIN_HEIGHT), "info")>>), MIN_HEIGHT)
    ELSE IF h > MAX_HEIGHT
    THEN SetFigureHeight(Emit(g, <<Show("Figure height cannot be greater than "
                                          \o ToString(MAX_HEIGHT), "info")>>), MAX_HEIGHT)
    ELSE SetFigureHeight(g, h)

\* ------------------------------------------------------------------ DTaler
\*
\* The dtale operators work on a record d of the fields of the DTaler plus the
\* ids of the live instances of the dtale store (dtale.global_state).

\* DTaler.__init__, with an empty dtale store and the AutoplotDisplay widget
\* as constructed (data_id = Unicode("1"), nothing displayed)
DTalerInit ==
    /\ tracked = EmptyDict
    /\ ignored = {}
    /\ dtaler_frozen = FALSE
    /\ ignore_next = <<>>
    /\ show_next = <<>>
    /\ new = <<>>
    /\ force_show = <<>>
    /\ updated = {}
    /\ deleted = {}
    /\ first_show = TRUE
    /\ instances = {}
    /\ lost = {}
    /\ output = [data_id |-> "1", displayed |-> <<>>]

\* set(list)
Elements(list) == {list[i] : i \in 1..Len(list)}

\* set(pandas_vars.keys())
Keys(vs) == {vs[i][1] : i \in 1..Len(vs)}

\* pandas_vars[name]
Lookup(vs, name) == vs[CHOOSE i \in 1..Len(vs) : vs[i][1] = name][2]

\* DTaler._remove_tracked_var
RemoveTrackedVarNoCleanup(d, var_name) ==
    IF var_name \notin DOMAIN d.tracked THEN d
    ELSE [d EXCEPT !.tracked = Pop(@, var_name),
                   !.deleted = @ \cup {d.tracked[var_name].data_id}]

RemoveTrackedVar(d, var_name) ==
    IF var_name \notin DOMAIN d.tracked THEN d
    ELSE [d EXCEPT !.tracked = Pop(@, var_name),
                   !.instances = @ \ {d.tracked[var_name].data_id},
                   !.deleted = @ \cup {d.tracked[var_name].data_id}]

\* DTaler._dtale_show and dtale.show: the new instance gets an id that no live
\* instance has (here the smallest one)
DtaleShow(d) ==
    LET data_id == CHOOSE i \in 1..(Cardinality(d.instances) + 1) :
                       /\ i \notin d.instances
                       /\ \A j \in 1..(i - 1) : j \in d.instances
    IN  [d |-> [d EXCEPT !.instances = @ \cup {data_id}, !.first_show = FALSE],
         data_id |-> data_id]

\* DTaler._add_tracked_var
AddTrackedVarNotStored(d, name, var) ==
    [DtaleShow(d).d EXCEPT !.new = Append(@, name)]

AddTrackedVar(d, name, var) ==
    LET r == DtaleShow(d)
    IN  [r.d EXCEPT !.tracked = Store(@, name, [pdf |-> var, data_id |-> r.data_id]),
                    !.new = Append(@, name)]

\* DTaler._update_tracked_var
UpdateTrackedVarNotRecorded(d, name, var) == [d EXCEPT !.tracked[name].pdf = var]

UpdateTrackedVar(d, name, var) ==
    [d EXCEPT !.tracked[name].pdf = var,
              !.updated = @ \cup {d.tracked[name].data_id}]

\* dtaler._removed_in_dtale
RemovedInDtale(d) == {name \in DOMAIN d.tracked : d.tracked[name].data_id \notin d.instances}

\* dtaler._filter_updated, as the set of its keys ("is not" compares identities)
FilterUpdated(vs, trk) ==
    {name \in Keys(vs) : name \in DOMAIN trk /\ trk[name].pdf # Lookup(vs, name)}

\* "for name in names: self._remove_tracked_var(name)"; the result does not
\* depend on the order
RECURSIVE RemoveAll(_, _)
RemoveAll(d, names) ==
    IF names = {} THEN d
    ELSE LET n == CHOOSE n \in names : TRUE
         IN  RemoveAll(RemoveTrackedVar(d, n), names \ {n})

\* step 4 of update_variables: the loop over a set, in the order the set yields
\* its elements, from the i-th one on
RECURSIVE AddAllFrom(_, _, _, _)
AddAllFrom(d, vs, order, i) ==
    IF i > Len(order) THEN d
    ELSE AddAllFrom(AddTrackedVar(d, order[i], Lookup(vs, order[i])), vs, order, i + 1)

\* step 5 of update_variables; the result does not depend on the order
RECURSIVE UpdateAll(_, _, _)
UpdateAll(d, vs, names) ==
    IF names = {} THEN d
    ELSE LET n == CHOOSE n \in names : TRUE
         IN  UpdateAll(UpdateTrackedVar(d, n, Lookup(vs, n)), vs, names \ {n})

\* update_variables up to step 3
DTalerCleanUpForgetsRemoved(d, vs) ==
    LET d0 == [d EXCEPT !.updated = {}, !.new = <<>>, !.deleted = {}, !.force_show = <<>>]
        removed == RemovedInDtale(d0)
        d1a == RemoveAll(d0, removed)
        gone == (d1a.ignored \cup DOMAIN d1a.tracked) \ Keys(vs)
        d1b == [RemoveAll(d1a, gone) EXCEPT !.ignored = @ \ gone]
        d2 == [d1b EXCEPT
                 !.ignored = ((IF d1b.dtaler_frozen
                               THEN @ \cup (Keys(vs) \ DOMAIN d1b.tracked)
                               ELSE @)
                              \cup Elements(d1b.ignore_next)) \ Elements(d1b.show_next),
                 !.force_show = d1b.show_next,
                 !.ignore_next = <<>>,
                 !.show_next = <<>>]
    IN  RemoveAll(d2, d2.ignored)

DTalerCleanUpIgnoreWins(d, vs) ==
    LET d0 == [d EXCEPT !.updated = {}, !.new = <<>>, !.deleted = {}, !.force_show = <<>>]
        removed == RemovedInDtale(d0)
        d1a == [RemoveAll(d0, removed) EXCEPT !.ignored = @ \cup removed]
        gone == (d1a.ignored \cup DOMAIN d1a.tracked) \ Keys(vs)
        d1b == [RemoveAll(d1a, gone) EXCEPT !.ignored = @ \ gone]
        d2 == [d1b EXCEPT
                 !.ignored = ((IF d1b.dtaler_frozen
                               THEN @ \cup (Keys(vs) \ DOMAIN d1b.tracked)
                               ELSE @)
                              \ Elements(d1b.show_next)) \cup Elements(d1b.ignore_next),
                 !.force_show = d1b.show_next,
                 !.ignore_next = <<>>,
                 !.show_next = <<>>]
    IN  RemoveAll(d2, d2.ignored)

DTalerCleanUpKeepsIgnores(d, vs) ==
    LET d0 == [d EXCEPT !.updated = {}, !.new = <<>>, !.deleted = {}, !.force_show = <<>>]
        removed == RemovedInDtale(d0)
        d1a == [RemoveAll(d0, removed) EXCEPT !.ignored = @ \cup removed]
        gone == (d1a.ignored \cup DOMAIN d1a.tracked) \ Keys(vs)
        d1b == [RemoveAll(d1a, gone) EXCEPT !.ignored = @ \ gone]
        d2 == [d1b EXCEPT
                 !.ignored = ((IF d1b.dtaler_frozen
                               THEN @ \cup (Keys(vs) \ DOMAIN d1b.tracked)
                               ELSE @)
                              \cup Elements(d1b.ignore_next)) \ Elements(d1b.show_next),
                 !.force_show = d1b.show_next,
                 !.show_next = <<>>]
    IN  RemoveAll(d2, d2.ignored)

DTalerCleanUp(d, vs) ==
    LET d0 == [d EXCEPT !.updated = {}, !.new = <<>>, !.deleted = {}, !.force_show = <<>>]
        removed == RemovedInDtale(d0)
        d1a == [RemoveAll(d0, removed) EXCEPT !.ignored = @ \cup removed]
        gone == (d1a.ignored \cup DOMAIN d1a.tracked) \ Keys(vs)
        d1b == [RemoveAll(d1a, gone) EXCEPT !.ignored = @ \ gone]
        d2 == [d1b EXCEPT
                 !.ignored = ((IF d1b.dtaler_frozen
                               THEN @ \cup (Keys(vs) \ DOMAIN d1b.tracked)
                               ELSE @)
                              \cup Elements(d1b.ignore_next)) \ Elements(d1b.show_next),
                 !.force_show = d1b.show_next,
                 !.ignore_next = <<>>,
                 !.show_next = <<>>]
    IN  RemoveAll(d2, d2.ignored)

\* the names step 4 of update_variables starts tracking
ToTrack(d, vs) ==
    LET d3 == DTalerCleanUp(d, vs)
    IN  Keys(vs) \ (DOMAIN d3.tracked \cup d3.ignored)

\* DTaler.update_variables; order is the order in which the set of step 4 yields
\* its elements
DTalerUpdateVariables(d, vs, order) ==
    LET d3 == DTalerCleanUp(d, vs)
        d4 == AddAllFrom(d3, vs, order, 1)
    IN  UpdateAll(d4, vs, FilterUpdated(vs, d4.tracked))

\* what draw displays: a DtaleData instance, or the Image of dtale.png
Instance(id) == [kind |-> "dtale", data_id |-> id]
Image == [kind |-> "image", data_id |-> 0]

\* the values of AutoplotDisplay.data_id: the ids of the instances the model
\* creates (live or not when draw reads the value)
DataIds == {"1", "2"}

\* int(output.data_id)
IntOf(str) == CHOOSE i \in 0..9 : ToString(i) = str

\* the first lines of draw: dtale.get_instance(int(output.data_id)), or the
\* Image when there is no such instance
Current(d, out) ==
    IF IntOf(out.data_id) \in d.instances THEN Instance(IntOf(out.data_id)) ELSE Image

\* the first key of keys that is tracked
FirstTracked(d, keys) ==
    keys[CHOOSE i \in 1..Len(keys) :
             /\ keys[i] \in DOMAIN d.tracked
             /\ \A j \in 1..(i - 1) : keys[j] \notin DOMAIN d.tracked]

\* "for key in reversed(keys): if key in self._tracked: ... break"
LastTracked(d, keys) ==
    keys[CHOOSE i \in 1..Len(keys) :
             /\ keys[i] \in DOMAIN d.tracked
             /\ \A j \in (i + 1)..Len(keys) : keys[j] \notin DOMAIN d.tracked]

\* dtaler._next_dtale_data: the results it can give. The first key of
\* dtale.global_state is any of the live instances.
NextDtaleData(d) ==
    IF d.instances = {} THEN {Image} ELSE {Instance(i) : i \in d.instances}

\* str(data_id) of every id of _updated or _deleted
Strs(ids) == {ToString(i) : i \in ids}

\* DTaler.draw: what it can display in the output (<<>> when it displays
\* nothing)
DisplayedSkipsUpdated(d, out, force) ==
    LET Unrefreshed == IF force THEN {<<Current(d, out)>>} ELSE {<<>>}
    IN  IF Elements(d.force_show) \cap DOMAIN d.tracked # {}
        THEN {<<Instance(d.tracked[LastTracked(d, d.force_show)].data_id)>>}
        ELSE IF Elements(d.new) \cap DOMAIN d.tracked # {}
        THEN {<<Instance(d.tracked[LastTracked(d, d.new)].data_id)>>}
        ELSE IF d.deleted # {} /\ out.data_id \in Strs(d.deleted)
        THEN {<<c>> : c \in NextDtaleData(d)}
        ELSE Unrefreshed

Displayed(d, out, force) ==
    LET Unrefreshed == IF force THEN {<<Current(d, out)>>} ELSE {<<>>}
    IN  IF Elements(d.force_show) \cap DOMAIN d.tracked # {}
        THEN {<<Instance(d.tracked[LastTracked(d, d.force_show)].data_id)>>}
        ELSE IF Elements(d.new) \cap DOMAIN d.tracked # {}
        THEN {<<Instance(d.tracked[LastTracked(d, d.new)].data_id)>>}
        ELSE IF d.updated # {}
        THEN IF out.data_id \in Strs(d.updated) THEN {<<Current(d, out)>>} ELSE Unrefreshed
        ELSE IF d.deleted # {}
        THEN IF out.data_id \in Strs(d.deleted)
             THEN {<<c>> : c \in NextDtaleData(d)}
             ELSE Unrefreshed
        ELSE Unrefreshed

\* DTaler.draw: it renders to the output widget and assigns no field
DTalerDraw(d, force) == d

\* ViewManager.__init__ as load_ipython_extension calls it: the views "graph"
\* and "dtale", the graph view active
ViewNames == {"graph", "dtale"}

ViewManagerInit ==
    /\ active = "graph"
    /\ manager_changed = TRUE
    /\ calls = 0

\* Plotter.__init__ and PlotterModel.__init__
GraphInit ==
    /\ traces = <<>>
    /\ force_shown = {}
    /\ changed = TRUE
    /\ frozen = FALSE
    /\ max_series_length = DEFAULT_MAX_SERIES_LENGTH
    /\ ylabel = NoName
    /\ width = DEFAULT_WIDTH
    /\ height = DEFAULT_HEIGHT
    /\ series_dict = EmptyDict
    /\ plotted_dfs = EmptyDict
    /\ ns_with_series = {}
    /\ pandas_vars = <<>>
    /\ fresh = FALSE

\* =========================================================================
\* SpecTrace: the lifetime of one Trace object
\* =========================================================================

VAR == "var"

\* datetime_series(length) of the tests, in two index and three value variants
\* (shifted index; shifted values; a NaN as last value)
TestSeries(length, ia, va) ==
    MkSeries([i \in 1..length |-> i + ia],
             [i \in 1..length |-> IF va = 2 /\ i = length THEN NaN ELSE ToString(i + va)])

TraceSeries == {TestSeries(l, ia, va) : l \in 2..MaxLen, ia \in 0..1, va \in 0..2}

SampleArgs == 0..MaxSample

InitTrace ==
    /\ GraphInit
    /\ DTalerInit
    /\ ViewManagerInit
    /\ tr = None
    /\ sampled = None
    /\ raised = FALSE
    /\ toasts = <<>>

\* Trace(toast, VAR, series, 1, max_length)
TraceCreate(series, max_length) ==
    /\ tr = None
    /\ LET r == TraceInit(VAR, series, 1, max_length, TRUE, NoName)
       IN  /\ tr' = r.tr
           /\ toasts' = r.toasts
           /\ raised' = r.raised
    /\ UNCHANGED <<sampled, graphVars, dtalerVars, managerVars>>

\* A Trace whose __init__ raised is referenced by nobody: no method is called on it
Constructed(t) == t # None /\ t.line # NoLine

\* trace.update_series(series)
TraceUpdateSeries(series) ==
    /\ Constructed(tr)
    /\ LET r == UpdateSeries(tr, series)
       IN  /\ tr' = r.tr
           /\ toasts' = r.toasts
           /\ raised' = r.raised
    /\ UNCHANGED <<sampled, graphVars, dtalerVars, managerVars>>

\* trace.update_max_series_length(max_length)
TraceUpdateMaxLength(max_length) ==
    /\ Constructed(tr)
    /\ LET r == UpdateMaxSeriesLength(tr, max_length)
       IN  /\ tr' = r.tr
           /\ toasts' = r.toasts
           /\ raised' = r.raised
    /\ UNCHANGED <<sampled, graphVars, dtalerVars, managerVars>>

NextTrace ==
    \/ \E series \in TraceSeries, m \in SampleArgs : TraceCreate(series, m)
    \/ \E series \in TraceSeries : TraceUpdateSeries(series)
    \/ \E m \in SampleArgs : TraceUpdateMaxLength(m)

SpecTrace == InitTrace /\ [][NextTrace]_vars

\* =========================================================================
\* SpecDown: Trace._get_downsampled as a function of (length, max length)
\* =========================================================================

\* A series whose timestamps are its row positions 0..length-1
DownSeries(length) ==
    MkSeries([i \in 1..length |-> i - 1], [i \in 1..length |-> ToString(i)])

InitDown ==
    /\ tr \in {NewTrace(VAR, DownSeries(l), 1, m, TRUE, NoName) :
                  l \in 2..DownMaxLen, m \in 0..DownMaxSample}
    /\ GraphInit
    /\ DTalerInit
    /\ ViewManagerInit
    /\ sampled = None
    /\ raised = FALSE
    /\ toasts = <<>>

\* trace._get_downsampled()
Downsample ==
    /\ sampled = None
    /\ LET d == GetDownsampled(tr)
       IN  /\ sampled' = d.out
           /\ tr' = d.tr
           /\ toasts' = d.toasts
    /\ UNCHANGED <<raised, graphVars, dtalerVars, managerVars>>

NextDown == Downsample

SpecDown == InitDown /\ [][NextDown]_vars

\* =========================================================================
\* Spec: the graph view (PlotterModel with its Plotter) behind the View
\* interface. ViewManager.redraw calls update_variables and then draw; each
\* method of the interface is one action, so the state between the two calls is
\* a state of the model. The commands are --ignore, --show, --freeze and
\* --defrost.
\* =========================================================================

\* the values of the variables of the user namespace
Plain == MkSeries(<<1, 2>>, <<"1", "2">>)
WithNaN == MkSeries(<<1, 2>>, <<"1", NaN>>)
Long == MkSeries(<<1, 2, 3, 4>>, <<"1", "2", "3", "4">>)
Strings == [MkSeries(<<1, 2>>, <<"a", "b">>) EXCEPT !.dtype = "object"]
FrameA == MkDataFrame(<<1, 2>>, <<MkColumn("a", <<"1", "2">>, "float64")>>)
FrameAB ==
    MkDataFrame(<<1, 2>>, <<MkColumn("a", <<"1", "2">>, "float64"),
                            MkColumn("b", <<"2", "1">>, "float64")>>)
FrameStrings ==
    MkDataFrame(<<1, 2>>, <<MkColumn("a", <<"a", "b">>, "object"),
                            MkColumn("b", <<"2", "1">>, "float64")>>)

XValues == {Plain, WithNaN, Long, Strings, FrameA, FrameAB, FrameStrings}

\* the snapshots: dicts in insertion order, as sequences of <<name, value>>
Snapshots == {<<>>} \cup {<<<<"x", v>>>> : v \in XValues}

\* the names given to --ignore and --show: variables, columns, and a name that
\* was never defined
CommandNames == {"x", "x (a)", "x (b)", "z"}

\* the record of the fields of the view, with no toast shown yet
G ==
    [traces |-> traces, force_shown |-> force_shown, changed |-> changed,
     frozen |-> frozen, max_series_length |-> max_series_length,
     ylabel |-> ylabel, width |-> width, height |-> height,
     series_dict |-> series_dict, plotted_dfs |-> plotted_dfs,
     ns_with_series |-> ns_with_series, toasts |-> <<>>, raised |-> FALSE]

\* the fields of the view after a handler
Commit(g) ==
    /\ traces' = g.traces
    /\ force_shown' = g.force_shown
    /\ changed' = g.changed
    /\ frozen' = g.frozen
    /\ max_series_length' = g.max_series_length
    /\ ylabel' = g.ylabel
    /\ width' = g.width
    /\ height' = g.height
    /\ series_dict' = g.series_dict
    /\ plotted_dfs' = g.plotted_dfs
    /\ ns_with_series' = g.ns_with_series
    /\ toasts' = g.toasts
    /\ raised' = g.raised

Init ==
    /\ GraphInit
    /\ DTalerInit
    /\ ViewManagerInit
    /\ tr = None
    /\ sampled = None
    /\ raised = FALSE
    /\ toasts = <<>>

\* view.update_variables(vs)
UpdateVariablesCall(vs) ==
    /\ Commit(UpdateVariables(G, vs))
    /\ pandas_vars' = vs
    /\ fresh' = TRUE
    /\ UNCHANGED <<traceVars, dtalerVars, managerVars>>

\* view.draw(force, output)
Draw(force) ==
    /\ Commit(Plot(G, force))
    /\ UNCHANGED <<traceVars, dtalerVars, managerVars, pandas_vars, fresh>>

\* %autoplot --ignore var_name
Ignore(var_name) ==
    /\ Commit(IgnoreVariable(G, var_name))
    /\ fresh' = FALSE
    /\ UNCHANGED <<traceVars, dtalerVars, managerVars, pandas_vars>>

\* %autoplot --show var_name
ShowCmd(var_name) ==
    /\ Commit(ShowVariable(G, var_name))
    /\ fresh' = FALSE
    /\ UNCHANGED <<traceVars, dtalerVars, managerVars, pandas_vars>>

\* %autoplot --freeze
Freeze ==
    /\ Commit(PlotterFreeze(G))
    /\ fresh' = FALSE
    /\ UNCHANGED <<traceVars, dtalerVars, managerVars, pandas_vars>>

\* %autoplot --defrost
Defrost ==
    /\ Commit(PlotterDefrost(G))
    /\ fresh' = FALSE
    /\ UNCHANGED <<traceVars, dtalerVars, managerVars, pandas_vars>>

Next ==
    \/ \E vs \in Snapshots : UpdateVariablesCall(vs)
    \/ \E force \in BOOLEAN : Draw(force)
    \/ \E n \in CommandNames : Ignore(n)
    \/ \E n \in CommandNames : ShowCmd(n)
    \/ Freeze
    \/ Defrost

Spec == Init /\ [][Next]_vars

\* =========================================================================
\* SpecFlag: the graph view with the actions of Spec, on the snapshots in which
\* x is a series with one of two data, or a dataframe whose column a has one of
\* two data, with and without a column b after it
\* =========================================================================

FrameA2 == MkDataFrame(<<1, 2>>, <<MkColumn("a", <<"2", "1">>, "float64")>>)
FrameA2B ==
    MkDataFrame(<<1, 2>>, <<MkColumn("a", <<"2", "1">>, "float64"),
                            MkColumn("b", <<"2", "1">>, "float64")>>)

FlagValues == {Plain, Long, FrameA, FrameA2, FrameAB, FrameA2B}

FlagSnapshots == {<<>>} \cup {<<<<"x", v>>>> : v \in FlagValues}

NextFlag ==
    \/ \E vs \in FlagSnapshots : UpdateVariablesCall(vs)
    \/ \E force \in BOOLEAN : Draw(force)
    \/ \E n \in CommandNames : Ignore(n)
    \/ \E n \in CommandNames : ShowCmd(n)
    \/ Freeze
    \/ Defrost

SpecFlag == Init /\ [][NextFlag]_vars

\* =========================================================================
\* SpecClassify: the first update cycle of the graph view on a namespace with
\* one pandas value x, drawn from series and dataframes of every index, index
\* class, dtype and length up to MaxIndexLen
\* =========================================================================

\* the series have 0..MaxIndexLen rows
MaxIndexLen == 3

\* the timestamps of an index: any order, with and without duplicates
ClassifyIndexes == UNION {[1..l -> 1..2] : l \in 0..MaxIndexLen}

\* the values of a series or column of the dtype, one per row: floats, complex
\* numbers with an imaginary part, strings
ClassifyData(dtype, l) ==
    [i \in 1..l |-> IF dtype = "float64" THEN ToString(i)
                    ELSE IF dtype = "complex128" THEN "1+1j" ELSE "a"]

ClassifyDtypes == {"float64", "complex128", "object"}

\* pd.DatetimeIndex and another class of index
ClassifyIndexTypes == {"DatetimeIndex", "Index"}

ClassifySeries ==
    {[MkSeries(index, ClassifyData(dtype, Len(index)))
         EXCEPT !.dtype = dtype, !.indexType = indexType] :
        index \in ClassifyIndexes, dtype \in ClassifyDtypes, indexType \in ClassifyIndexTypes}

\* dataframes with the column a, or the columns a and b
ClassifyFrames ==
    {[MkDataFrame(index, <<MkColumn("a", ClassifyData(da, Len(index)), da)>>)
         EXCEPT !.indexType = indexType] :
        index \in ClassifyIndexes, da \in ClassifyDtypes, indexType \in ClassifyIndexTypes}
      \cup
    {[MkDataFrame(index, <<MkColumn("a", ClassifyData(da, Len(index)), da),
                           MkColumn("b", ClassifyData(db, Len(index)), db)>>)
         EXCEPT !.indexType = indexType] :
        index \in {i \in ClassifyIndexes : Len(i) = 2}, da \in ClassifyDtypes,
        db \in ClassifyDtypes, indexType \in ClassifyIndexTypes}

ClassifySnapshots == {<<<<"x", v>>>> : v \in ClassifySeries \cup ClassifyFrames}

\* view.update_variables(vs) on the view as constructed
Classify(vs) ==
    /\ traces = <<>>
    /\ ~fresh
    /\ UpdateVariablesCall(vs)

NextClassify == \E vs \in ClassifySnapshots : Classify(vs)

SpecClassify == Init /\ [][NextClassify]_vars

\* =========================================================================
\* SpecDtale: the dtale view (DTaler) behind the View interface, and the user
\* deleting instances in the dtale store
\* =========================================================================

\* at most MaxPending --ignore and MaxPending --show commands between two cells
MaxPending == 1

DtaleNames == {"x", "y"}

\* the objects a variable can be bound to
DtaleObjects == {"df1", "df2"}

\* the snapshots: every variable is absent or bound to one of the objects
DtaleSnapshots ==
    {SelectSeq(<<<<"x", vx>>, <<"y", vy>>>>, LAMBDA e : e[2] # NoName) :
        vx \in DtaleObjects \cup {NoName}, vy \in DtaleObjects \cup {NoName}}

\* the orders in which a set of names can yield its elements
Orders(names) ==
    {order \in UNION {[1..k -> names] : k \in 0..Cardinality(DtaleNames)} :
        /\ Len(order) = Cardinality(names)
        /\ Elements(order) = names}

\* the record of the fields of the DTaler and of the dtale store
D ==
    [tracked |-> tracked, ignored |-> ignored, dtaler_frozen |-> dtaler_frozen,
     ignore_next |-> ignore_next, show_next |-> show_next, new |-> new,
     force_show |-> force_show, updated |-> updated, deleted |-> deleted,
     first_show |-> first_show, instances |-> instances]

\* the fields of the DTaler after a handler
DTalerCommit(d) ==
    /\ tracked' = d.tracked
    /\ ignored' = d.ignored
    /\ dtaler_frozen' = d.dtaler_frozen
    /\ ignore_next' = d.ignore_next
    /\ show_next' = d.show_next
    /\ new' = d.new
    /\ force_show' = d.force_show
    /\ updated' = d.updated
    /\ deleted' = d.deleted
    /\ first_show' = d.first_show
    /\ instances' = d.instances

InitDtale ==
    /\ GraphInit
    /\ DTalerInit
    /\ ViewManagerInit
    /\ tr = None
    /\ sampled = None
    /\ raised = FALSE
    /\ toasts = <<>>

\* the variables of the graph view and of the Trace, except the snapshot
idleVars == <<traceVars, managerVars, traces, force_shown, changed, frozen,
              max_series_length, ylabel, width, height,
              series_dict, plotted_dfs, ns_with_series, fresh>>

\* view.update_variables(vs)
DTalerUpdateVariablesCall(vs) ==
    /\ \E order \in Orders(ToTrack(D, vs)) : DTalerCommit(DTalerUpdateVariables(D, vs, order))
    /\ pandas_vars' = vs
    /\ lost' = {n \in lost : n \in Keys(vs) /\ n \notin Elements(show_next)}
    /\ toasts' = <<>>
    /\ raised' = FALSE
    /\ UNCHANGED <<idleVars, output>>

\* %autoplot --ignore var_name
DTalerIgnoreVariable(var_name) ==
    /\ Len(ignore_next) < MaxPending
    /\ ignore_next' = Append(ignore_next, var_name)
    /\ toasts' = <<>>
    /\ raised' = FALSE
    /\ UNCHANGED <<idleVars, output, pandas_vars, tracked, ignored, dtaler_frozen, show_next, new,
                   force_show, updated, deleted, first_show, instances, lost>>

\* %autoplot --show var_name
DTalerShowVariable(var_name) ==
    /\ Len(show_next) < MaxPending
    /\ show_next' = Append(show_next, var_name)
    /\ toasts' = <<>>
    /\ raised' = FALSE
    /\ UNCHANGED <<idleVars, output, pandas_vars, tracked, ignored, dtaler_frozen, ignore_next, new,
                   force_show, updated, deleted, first_show, instances, lost>>

\* %autoplot --freeze
DTalerFreeze ==
    /\ toasts' = IF ~dtaler_frozen THEN <<Show("Dtale is 'frozen'", "info")>> ELSE <<>>
    /\ raised' = FALSE
    /\ dtaler_frozen' = TRUE
    /\ UNCHANGED <<idleVars, output, pandas_vars, tracked, ignored, ignore_next, show_next, new,
                   force_show, updated, deleted, first_show, instances, lost>>

\* %autoplot --defrost
DTalerDefrost ==
    /\ toasts' = IF dtaler_frozen THEN <<Show("Dtale is 'defrosted'", "info")>> ELSE <<>>
    /\ raised' = FALSE
    /\ dtaler_frozen' = FALSE
    /\ UNCHANGED <<idleVars, output, pandas_vars, tracked, ignored, ignore_next, show_next, new,
                   force_show, updated, deleted, first_show, instances, lost>>

\* the user deletes an instance in the dtale frontend
ExternalDelete(data_id) ==
    /\ data_id \in instances
    /\ instances' = instances \ {data_id}
    /\ lost' = lost \cup {n \in DOMAIN tracked : tracked[n].data_id = data_id}
    /\ toasts' = <<>>
    /\ raised' = FALSE
    /\ UNCHANGED <<idleVars, output, pandas_vars, tracked, ignored, dtaler_frozen, ignore_next,
                   show_next, new, force_show, updated, deleted, first_show>>

NextDtale ==
    \/ \E vs \in DtaleSnapshots : DTalerUpdateVariablesCall(vs)
    \/ \E n \in DtaleNames : DTalerIgnoreVariable(n)
    \/ \E n \in DtaleNames : DTalerShowVariable(n)
    \/ DTalerFreeze
    \/ DTalerDefrost
    \/ \E i \in instances : ExternalDelete(i)

SpecDtale == InitDtale /\ [][NextDtale]_vars

\* =========================================================================
\* SpecDraw: the dtale view as ViewManager.redraw drives it after every cell
\* (update_variables and then draw on the output widget), the --ignore and
\* --show commands, the user deleting instances in dtale, and the frontend
\* setting the data_id of the widget
\* =========================================================================

\* at most MaxCommands --ignore and --show commands between two cells
MaxCommands == 2

\* the snapshots: x is absent or bound to one of the objects, y is absent or
\* bound to the first object
DrawSnapshots == {vs \in DtaleSnapshots : "y" \in Keys(vs) => Lookup(vs, "y") = "df1"}

\* view.update_variables(vs); view.draw(force, output)
DTalerRedraw(vs, force) ==
    /\ \E order \in Orders(ToTrack(D, vs)) :
           LET Drawn(d) ==
                   /\ DTalerCommit(DTalerDraw(d, force))
                   /\ \E shown \in Displayed(d, output, force) :
                          output' = [output EXCEPT !.displayed = shown]
           IN  Drawn(DTalerUpdateVariables(D, vs, order))
    /\ pandas_vars' = vs
    /\ lost' = {n \in lost : n \in Keys(vs) /\ n \notin Elements(show_next)}
    /\ toasts' = <<>>
    /\ raised' = FALSE
    /\ UNCHANGED idleVars

\* %autoplot --ignore var_name
DrawIgnoreVariable(var_name) ==
    /\ Len(ignore_next) + Len(show_next) < MaxCommands
    /\ ignore_next' = Append(ignore_next, var_name)
    /\ toasts' = <<>>
    /\ raised' = FALSE
    /\ UNCHANGED <<idleVars, output, pandas_vars, tracked, ignored, dtaler_frozen, show_next,
                   new, force_show, updated, deleted, first_show, instances, lost>>

\* %autoplot --show var_name
DrawShowVariable(var_name) ==
    /\ Len(ignore_next) + Len(show_next) < MaxCommands
    /\ show_next' = Append(show_next, var_name)
    /\ toasts' = <<>>
    /\ raised' = FALSE
    /\ UNCHANGED <<idleVars, output, pandas_vars, tracked, ignored, dtaler_frozen, ignore_next,
                   new, force_show, updated, deleted, first_show, instances, lost>>

\* the frontend sets the synced trait data_id of the widget
SetDataId(id) ==
    /\ output' = [output EXCEPT !.data_id = id]
    /\ toasts' = <<>>
    /\ raised' = FALSE
    /\ UNCHANGED <<idleVars, pandas_vars, tracked, ignored, dtaler_frozen, ignore_next,
                   show_next, new, force_show, updated, deleted, first_show, instances, lost>>

NextDraw ==
    \/ \E vs \in DrawSnapshots, force \in BOOLEAN : DTalerRedraw(vs, force)
    \/ \E n \in DtaleNames : DrawIgnoreVariable(n)
    \/ \E n \in DtaleNames : DrawShowVariable(n)
    \/ \E i \in instances : ExternalDelete(i)
    \/ \E id \in DataIds : SetDataId(id)

SpecDraw == InitDtale /\ [][NextDraw]_vars

\* =========================================================================
\* SpecManager: the ViewManager built by load_ipython_extension, with the
\* graph view and the dtale view registered. Each method of the ViewManager is
\* one action: redraw (update_variables and then draw on the active view), the
\* commands of %autoplot, and the assignment of the active view.
\* =========================================================================

\* a value of the user namespace that is not a pandas object
IntValue == [class |-> "int"]

\* the user namespaces of the shell: dicts in insertion order
UserNamespaces ==
    {<<>>,
     <<<<"x", Plain>>>>,
     <<<<"x", FrameA>>>>,
     <<<<"_x", Plain>>, <<"pd", Plain>>, <<"n", IntValue>>, <<"x", Long>>>>,
     <<<<"_", Plain>>, <<"In", FrameA>>, <<"n", IntValue>>>>}

\* name.startswith("_"), for the names of the model
StartsWithUnderscore(name) == name \in {"_", "_x"}

\* ViewManager._reserved
Reserved == {"In", "Out", "get_ipython", "exit", "quit", "pd"}

\* ViewManager._is_pandas
IsPandas(var) == var.class \in {"DataFrame", "Series"}

\* the dict comprehension of ViewManager.redraw over shell.user_ns
PandasVars(user_ns) ==
    SelectSeq(user_ns, LAMBDA e : /\ ~StartsWithUnderscore(e[1])
                                  /\ e[1] \notin Reserved
                                  /\ IsPandas(e[2]))

\* the arguments of the commands
ManagerNames == {"x", "z"}
ColourArgs == {"red", "reddish"}
LabelArgs == {"price"}
ManagerSampleArgs == {-1, 0, 1}
YlabelArgs == {"", "price"}
HeightArgs == {2, 5}
WidthArgs == {21}

\* the names given to "active = ...": the registered views and another name
ActiveArgs == ViewNames \cup {"table"}

\* the fields of the graph view and of the dtale view
graphViewVars == <<traces, force_shown, changed, frozen, max_series_length,
                   ylabel, width, height, series_dict, plotted_dfs, ns_with_series>>
dtaleViewVars == <<tracked, ignored, dtaler_frozen, ignore_next, show_next, new,
                   force_show, updated, deleted, first_show>>

InitManager ==
    /\ GraphInit
    /\ DTalerInit
    /\ ViewManagerInit
    /\ tr = None
    /\ sampled = None
    /\ raised = FALSE
    /\ toasts = <<>>

\* one more call to the ViewManager
Called ==
    /\ calls < MaxCalls
    /\ calls' = calls + 1

\* a method of the graph view has run and left the fields as g
GraphHandled(g) ==
    /\ Commit(g)
    /\ fresh' = FALSE
    /\ Called
    /\ UNCHANGED <<traceVars, dtalerVars, active, manager_changed, pandas_vars>>

\* a method of the dtale view has run, left the fields as d and shown ts
DtaleHandled(d, ts) ==
    /\ DTalerCommit(d)
    /\ toasts' = ts
    /\ raised' = FALSE
    /\ Called
    /\ UNCHANGED <<traceVars, graphVars, lost, output, active, manager_changed>>

\* the active view inherits the method of View: NotImplementedError, which the
\* ViewManager turns into a warning
NotImplemented(what) ==
    /\ toasts' = <<Show(active \o " does not implement " \o what, "warning")>>
    /\ raised' = FALSE
    /\ Called
    /\ UNCHANGED <<traceVars, graphVars, dtalerVars, active, manager_changed>>

\* ViewManager.redraw. An exception of update_variables leaves redraw before
\* draw is called and before the flag is reset.
RedrawGraph(vs) ==
    /\ active = "graph"
    /\ LET Updated(g1) ==
               IF g1.raised
               THEN Commit(g1) /\ UNCHANGED manager_changed
               ELSE Commit(Plot(g1, manager_changed)) /\ manager_changed' = FALSE
       IN  Updated(UpdateVariables(G, vs))
    /\ pandas_vars' = vs
    /\ fresh' = TRUE
    /\ Called
    /\ UNCHANGED <<traceVars, dtalerVars, active>>

RedrawDtale(vs) ==
    /\ active = "dtale"
    /\ \E order \in Orders(ToTrack(D, vs)) :
           LET Drawn(d) ==
                   /\ DTalerCommit(DTalerDraw(d, manager_changed))
                   /\ \E shown \in Displayed(d, output, manager_changed) :
                          output' = [output EXCEPT !.displayed = shown]
           IN  Drawn(DTalerUpdateVariables(D, vs, order))
    /\ manager_changed' = FALSE
    /\ pandas_vars' = vs
    /\ lost' = {n \in lost : n \in Keys(vs) /\ n \notin Elements(show_next)}
    /\ toasts' = <<>>
    /\ raised' = FALSE
    /\ Called
    /\ UNCHANGED <<traceVars, graphViewVars, fresh, active>>

Redraw(user_ns) ==
    \/ RedrawGraph(PandasVars(user_ns))
    \/ RedrawDtale(PandasVars(user_ns))

\* ViewManager.ignore_variable
ManagerIgnoreVariable(var_name) ==
    \/ active = "graph" /\ GraphHandled(IgnoreVariable(G, var_name))
    \/ active = "dtale" /\ DtaleHandled([D EXCEPT !.ignore_next = Append(@, var_name)], <<>>)

\* ViewManager.show_variable
ManagerShowVariable(var_name) ==
    \/ active = "graph" /\ GraphHandled(ShowVariable(G, var_name))
    \/ active = "dtale" /\ DtaleHandled([D EXCEPT !.show_next = Append(@, var_name)], <<>>)

\* ViewManager.change_colour; DTaler inherits View.change_colour
ManagerChangeColour(var_name, colour) ==
    \/ active = "graph" /\ GraphHandled(ChangeColour(G, var_name, colour))
    \/ active = "dtale" /\ NotImplemented("changing colours")

\* ViewManager.rename_variable; DTaler inherits View.rename_variable
ManagerRenameVariable(var_name, display_name) ==
    \/ active = "graph" /\ GraphHandled(RenameVariable(G, var_name, display_name))
    \/ active = "dtale" /\ NotImplemented("variable renaming")

\* ViewManager.freeze
ManagerFreeze ==
    \/ active = "graph" /\ GraphHandled(PlotterFreeze(G))
    \/ active = "dtale"
         /\ DtaleHandled([D EXCEPT !.dtaler_frozen = TRUE],
                         IF ~dtaler_frozen THEN <<Show("Dtale is 'frozen'", "info")>> ELSE <<>>)

\* ViewManager.defrost
ManagerDefrost ==
    \/ active = "graph" /\ GraphHandled(PlotterDefrost(G))
    \/ active = "dtale"
         /\ DtaleHandled([D EXCEPT !.dtaler_frozen = FALSE],
                         IF dtaler_frozen THEN <<Show("Dtale is 'defrosted'", "info")>> ELSE <<>>)

\* ViewManager.update_max_series_length; DTaler inherits the method of View
ManagerUpdateMaxSeriesLength(sample) ==
    \/ active = "graph" /\ GraphHandled(PlotterUpdateMaxSeriesLength(G, sample))
    \/ active = "dtale" /\ NotImplemented("max series length")

\* ViewManager.set_ylabel; DTaler inherits View.set_ylabel
ManagerSetYlabel(label) ==
    \/ active = "graph" /\ GraphHandled(PlotterSetYlabel(G, label))
    \/ active = "dtale" /\ NotImplemented("changing ylabel")

\* ViewManager.set_plot_height; DTaler inherits View.set_plot_height
ManagerSetPlotHeight(h) ==
    \/ active = "graph" /\ GraphHandled(SetPlotHeight(G, h))
    \/ active = "dtale" /\ NotImplemented("setting the plot height")

\* ViewManager.set_plot_width; DTaler inherits View.set_plot_width. The handler
\* of NotImplementedError shows the text of set_plot_height.
ManagerSetPlotWidth(w) ==
    \/ active = "graph" /\ GraphHandled(SetPlotWidth(G, w))
    \/ active = "dtale" /\ NotImplemented("setting the plot height")

\* the setter of ViewManager.active
SetActiveAlwaysChanged(v) ==
    /\ IF v \notin ViewNames
       THEN raised' = TRUE /\ UNCHANGED <<active, manager_changed>>
       ELSE raised' = FALSE /\ manager_changed' = TRUE /\ active' = v
    /\ toasts' = <<>>
    /\ Called
    /\ UNCHANGED <<traceVars, graphVars, dtalerVars>>

SetActive(v) ==
    /\ IF v \notin ViewNames
       THEN raised' = TRUE /\ UNCHANGED <<active, manager_changed>>
       ELSE raised' = FALSE /\ manager_changed' = (active # v) /\ active' = v
    /\ toasts' = <<>>
    /\ Called
    /\ UNCHANGED <<traceVars, graphVars, dtalerVars>>

NextManager ==
    \/ \E user_ns \in UserNamespaces : Redraw(user_ns)
    \/ \E n \in ManagerNames : ManagerIgnoreVariable(n)
    \/ \E n \in ManagerNames : ManagerShowVariable(n)
    \/ \E n \in ManagerNames, c \in ColourArgs : ManagerChangeColour(n, c)
    \/ \E n \in ManagerNames, l \in LabelArgs : ManagerRenameVariable(n, l)
    \/ ManagerFreeze
    \/ ManagerDefrost
    \/ \E m \in ManagerSampleArgs : ManagerUpdateMaxSeriesLength(m)
    \/ \E l \in YlabelArgs : ManagerSetYlabel(l)
    \/ \E h \in HeightArgs : ManagerSetPlotHeight(h)
    \/ \E w \in WidthArgs : ManagerSetPlotWidth(w)
    \/ \E v \in ActiveArgs : SetActive(v)

SpecManager == InitManager /\ [][NextManager]_vars

\* =========================================================================
\* Claims on the Trace
\* =========================================================================

\* the trace is displayed downsampled
Downsampled(t) == t # None /\ t.max_length < Length(t.series)

OfType(ts, type) == SelectSeq(ts, LAMBDA x : x.type = type)

\* C6: every Trace operation (construction, series update, max-length update)
\* shows the downsample warning exactly once, with (name, series length, max
\* length), when it takes the trace from not downsampled to downsampled, and
\* shows no downsample warning otherwise, in particular not while the trace
\* stays downsampled.
C6_WarnOnceOnEntering ==
    [][OfType(toasts', "downsample_warning") =
            IF ~Downsampled(tr) /\ Downsampled(tr')
            THEN <<DownsampleWarning(tr'.name, Length(tr'.series), tr'.max_length)>>
            ELSE <<>>]_vars

\* an operation was applied to a downsampled trace, left it downsampled and
\* showed nothing
C6_Witness ==
    /\ Constructed(tr)
    /\ Downsampled(tr)
    /\ tr.been_warned
    /\ toasts = <<>>

\* C7: every Trace operation that takes the trace from downsampled to not
\* downsampled (a shorter series, or a raised or disabled max length) shows the
\* "now displayed in full" notice exactly once, and no operation shows it
\* otherwise.
C7_InfoOnceOnLeaving ==
    [][OfType(toasts', "no_downsample_info") =
            IF Downsampled(tr) /\ ~Downsampled(tr')
            THEN <<NoDownsampleInfo(tr.name)>>
            ELSE <<>>]_vars

\* C17: after construction and after every Trace operation (series update,
\* max-length update) the warned flag of the trace is true if and only if the
\* trace is displayed downsampled (series longer than the max length); hence
\* it turns true exactly when the trace enters that state and false exactly
\* when it leaves it.
C17_WarnedIffDownsampled ==
    tr # None => (tr.been_warned <=> Downsampled(tr))

\* a max-length update took a downsampled trace out of that state: the notice
\* was shown and the flag is false
C17_Witness ==
    /\ Constructed(tr)
    /\ ~tr.been_warned
    /\ ~Downsampled(tr)
    /\ OfType(toasts, "no_downsample_info") # <<>>

\* C8: for length L > m >= 2 the displayed sample has exactly m points, the
\* i-th (0-based) at an original position nearest to i*(L-1)/(m-1); positions
\* increase strictly from 0 to L-1, each point is the original row at its
\* position and the original series is untouched. For L <= m, or m = 0, the
\* series is displayed unchanged.
C8_DownsamplePositions ==
    sampled # None =>
        LET L == Length(tr.series)
            m == tr.max_length
        IN  /\ tr.series = DownSeries(L)
            /\ (L > m /\ m >= 2) =>
                  /\ Len(sampled.index) = m
                  /\ Len(sampled.values) = m
                  /\ sampled.index[1] = 0
                  /\ sampled.index[m] = L - 1
                  /\ \A i \in 1..m :
                        LET p == sampled.index[i]
                            e == 2 * (p * (m - 1) - (i - 1) * (L - 1))
                        IN  /\ e <= m - 1
                            /\ -e <= m - 1
                            /\ sampled.values[i] = tr.series.values[p + 1]
                  /\ \A i \in 1..(m - 1) : sampled.index[i] < sampled.index[i + 1]
            /\ (L <= m) => sampled = tr.series

\* a series of 8 points downsampled to 3
C8_Witness ==
    /\ sampled # None
    /\ Length(tr.series) = 8
    /\ tr.max_length = 3
    /\ Len(sampled.index) = 3

\* =========================================================================
\* Claims on the graph view
\* =========================================================================

\* the names a trace can have
EntityNames == {"x", "x (a)", "x (b)"}

\* the names the columns of a dataframe can have
ColumnsOf(name) == {DF_COLUMN_FORMAT_STRING(name, c) : c \in {"a", "b"}}

\* the snapshot has the variable
Has(vs, name) == \E i \in 1..Len(vs) : vs[i][1] = name

\* its value in the snapshot
ValueIn(vs, name) == vs[CHOOSE i \in 1..Len(vs) : vs[i][1] = name][2]

\* the trace names of the columns of a dataframe, and of its plottable columns
ColumnNames(name, var) ==
    {DF_COLUMN_FORMAT_STRING(name, var.columns[i].name) : i \in 1..Len(var.columns)}

PlottableColumns(name, var) ==
    {DF_COLUMN_FORMAT_STRING(name, var.columns[i].name) :
        i \in {j \in 1..Len(var.columns) : IsPlottable(ColumnSeries(var, var.columns[j]))}}

\* the variable is a plottable series / a dataframe with a plottable column
IsSeriesIn(vs, name) ==
    Has(vs, name) /\ ValueIn(vs, name).class = "Series" /\ IsPlottable(ValueIn(vs, name))

IsFrameIn(vs, name) ==
    /\ Has(vs, name)
    /\ ValueIn(vs, name).class = "DataFrame"
    /\ PlottableColumns(name, ValueIn(vs, name)) # {}

\* the names of the snapshot: its variables and the columns of its dataframes
Namespace(vs) ==
    {vs[i][1] : i \in 1..Len(vs)}
      \cup UNION {ColumnNames(vs[i][1], vs[i][2]) :
                     i \in {j \in 1..Len(vs) : vs[j][2].class = "DataFrame"}}

\* the names of the snapshot that are plottable series or plottable columns
Eligible(vs) ==
    {vs[i][1] : i \in {j \in 1..Len(vs) : IsSeriesIn(vs, vs[j][1])}}
      \cup UNION {PlottableColumns(vs[i][1], vs[i][2]) :
                     i \in {j \in 1..Len(vs) : vs[j][2].class = "DataFrame"}}

\* C1: when update_variables(S) has run, draw has reset the changed flag and no
\* command has run since, update_variables(S) with the same snapshot changes
\* neither the entity store (series store and groups), nor any field of any
\* trace, nor force_shown, shows no toast and leaves the changed flag false.
C1_SecondUpdateChangesNothing ==
    [][(fresh /\ ~changed /\ pandas_vars' = pandas_vars /\ UpdateVariablesCall(pandas_vars)) =>
            /\ UNCHANGED <<traces, force_shown, series_dict, plotted_dfs>>
            /\ toasts' = <<>>
            /\ ~changed']_vars

C5_RestoredVisibleSameColour ==
    [][/\ \A n \in EntityNames :
            (/\ ~frozen
             /\ n \in TraceNames(G)
             /\ n \notin Namespace(pandas_vars)
             /\ n \in Eligible(pandas_vars')
             /\ UpdateVariablesCall(pandas_vars')) =>
                n \in GetVisible(G')
       /\ \A i \in 1..Len(traces) : traces'[i].colour = traces[i].colour
       /\ \A i \in 1..Len(traces') : traces'[i].colour = "C" \o ToString((i - 1) % 10)]_vars

\* C9: no name is a key of the series store and a key of the group store.
C9_SeriesKeyIsNoGroupKey == DOMAIN series_dict \cap DOMAIN plotted_dfs = {}

\* x has a trace of its own (it was a tracked series) and is now a group
C9_Witness ==
    /\ "x" \in TraceNames(G)
    /\ "x" \in DOMAIN plotted_dfs
    /\ "x" \notin DOMAIN series_dict

\* C10: every group is non-empty and each member is a key of the series store
\* with a trace in the plotter; a group that appears holds exactly the plottable
\* columns of the dataframe of the snapshot, and when a group disappears none of
\* its members stays tracked.
C10_GroupsNonEmptyAndTracked ==
    /\ [](\A d \in DOMAIN plotted_dfs :
              /\ plotted_dfs[d] # {}
              /\ plotted_dfs[d] \subseteq DOMAIN series_dict
              /\ plotted_dfs[d] \subseteq TraceNames(G))
    /\ [][\A d \in {"x"} :
              /\ (d \notin DOMAIN plotted_dfs /\ d \in DOMAIN plotted_dfs') =>
                    /\ IsFrameIn(pandas_vars', d)
                    /\ plotted_dfs'[d] = PlottableColumns(d, ValueIn(pandas_vars', d))
              /\ (d \in DOMAIN plotted_dfs /\ d \notin DOMAIN plotted_dfs') =>
                    plotted_dfs[d] \cap DOMAIN series_dict' = {}]_vars

\* column a stopped being plottable: it left the series store and the group,
\* and the group of x holds column b alone
C10_Witness ==
    /\ fresh
    /\ pandas_vars = <<<<"x", FrameStrings>>>>
    /\ "x (a)" \in TraceNames(G)
    /\ "x (a)" \notin DOMAIN series_dict
    /\ plotted_dfs = Store(EmptyDict, "x", {"x (b)"})

\* C12: in every reachable state of the graph view, every name in force_shown
\* has a visible trace.
C12_ForceShownVisible ==
    \A n \in force_shown : n \in GetVisible(G)

\* the traces a --show or --ignore of var_name is applied to: the members of
\* the group when var_name is a dataframe name, the trace of that name otherwise
Targets(var_name) ==
    IF var_name \in DOMAIN plotted_dfs THEN plotted_dfs[var_name] ELSE {var_name}

\* C13: --show of a name whose traces exist, whatever their state (hidden,
\* visible, visible and force-shown), leaves each of them visible and in
\* force_shown, shows no toast, and turns the changed flag on only when the
\* visibility or the force_shown set changed.
C13_ShowPinsVisible ==
    [][\A n \in CommandNames :
          (Targets(n) \subseteq TraceNames(G) /\ ShowCmd(n)) =>
              /\ Targets(n) \subseteq GetVisible(G')
              /\ Targets(n) \subseteq force_shown'
              /\ toasts' = <<>>
              /\ (changed' /\ ~changed) =>
                     (GetVisible(G') # GetVisible(G) \/ force_shown' # force_shown)]_vars

\* C14: an update cycle whose snapshot does not have the variable of a visible
\* force-shown trace, or has it with a value that is no longer eligible, leaves
\* the trace visible and force-shown; and a step that hides a visible
\* force-shown trace is an --ignore.
C14_ForceShownExempt ==
    [][\A n \in EntityNames :
          (n \in force_shown /\ n \in GetVisible(G)) =>
              /\ (n \notin Eligible(pandas_vars') /\ UpdateVariablesCall(pandas_vars')) =>
                     (n \in GetVisible(G') /\ n \in force_shown')
              /\ n \notin GetVisible(G') => \E c \in CommandNames : Ignore(c)]_vars

\* C15: after an update cycle, every name that was tracked before it, visible
\* or hidden, that is not a plottable series or plottable column of the
\* snapshot and is not in force_shown, is in neither the series store nor a
\* group, and its trace is hidden.
C15_DeletedWhateverVisibility ==
    [][\A n \in EntityNames :
          (/\ n \in DOMAIN series_dict
           /\ n \notin force_shown
           /\ n \notin Eligible(pandas_vars')
           /\ UpdateVariablesCall(pandas_vars')) =>
              /\ n \notin DOMAIN series_dict'
              /\ \A d \in DOMAIN plotted_dfs' : n \notin plotted_dfs'[d]
              /\ n \notin GetVisible(G')]_vars

\* C16: --ignore of a name whose traces exist hides the visible ones among
\* them, removes those from force_shown and turns the changed flag on when
\* there is one; a trace that was already hidden keeps its visibility and its
\* place in force_shown, and alone it leaves the changed flag as it was. With a
\* dataframe name the traces are the members of its group. No other trace, no
\* other field of a trace and no store changes, and no toast is shown.
C16_HideVisibleOnly ==
    [][\A n \in CommandNames :
          (Targets(n) \subseteq TraceNames(G) /\ Ignore(n)) =>
              /\ GetVisible(G') = GetVisible(G) \ Targets(n)
              /\ force_shown' = force_shown \ (Targets(n) \cap GetVisible(G))
              /\ changed' = (changed \/ Targets(n) \cap GetVisible(G) # {})
              /\ Len(traces') = Len(traces)
              /\ \A i \in 1..Len(traces) :
                     traces'[i] = [traces[i] EXCEPT !.visible = traces'[i].visible]
              /\ toasts' = <<>>
              /\ UNCHANGED <<series_dict, plotted_dfs, frozen, max_series_length>>]_vars

\* after --ignore x with x a dataframe of two plottable columns: both traces
\* are hidden and none is force-shown
C16_Witness ==
    /\ ~fresh
    /\ ~frozen
    /\ changed
    /\ "x" \in DOMAIN plotted_dfs
    /\ plotted_dfs["x"] = {"x (a)", "x (b)"}
    /\ GetVisible(G) = {}
    /\ force_shown = {}
    /\ Len(traces) = 2

\* =========================================================================
\* Claims on the dtale view
\* =========================================================================

\* the instance of a tracked name was deleted in the dtale store
ExternallyDeleted(name) ==
    name \in DOMAIN tracked /\ tracked[name].data_id \notin instances

\* C3: a name whose instance was deleted in the dtale store while it was
\* tracked is, from the next update cycle on and as long as it stays in the
\* snapshot and no cycle consumes a --show of it, in the ignore set and not
\* tracked. An update cycle that finds the instance of a tracked name deleted,
\* or the name in the ignore set, while the name is in the snapshot (bound to
\* the same object or to another one) and no --show of it is pending, leaves
\* the name ignored and not tracked and creates no instance for it; when a
\* --show of it is pending, the cycle leaves it tracked with a live instance and
\* not ignored. No other step changes the ignore set or the tracked names.
C3_NoResurrection ==
    /\ [](\A n \in lost : ExternallyDeleted(n) \/ (n \in ignored /\ n \notin DOMAIN tracked))
    /\ [][IF /\ force_show' = show_next
             /\ ignore_next' = <<>>
             /\ show_next' = <<>>
             /\ DTalerUpdateVariablesCall(pandas_vars')
          THEN \A n \in DtaleNames :
                  ((ExternallyDeleted(n) \/ n \in ignored) /\ n \in Keys(pandas_vars')) =>
                      IF n \in Elements(show_next)
                      THEN /\ n \in DOMAIN tracked'
                           /\ n \notin ignored'
                           /\ tracked'[n].data_id \in instances'
                      ELSE /\ n \in ignored'
                           /\ n \notin DOMAIN tracked'
                           /\ n \notin Elements(new')
                           /\ instances' = {tracked'[m].data_id : m \in DOMAIN tracked'}
          ELSE UNCHANGED <<tracked, ignored>>]_vars

\* the instance of x was deleted in dtale; after the cycle that found it gone
\* and one more cycle, x is in the snapshot, bound to another object, ignored
\* and without an instance
C3_Witness ==
    /\ "x" \in lost
    /\ "x" \in ignored
    /\ "x" \notin DOMAIN tracked
    /\ ~dtaler_frozen
    /\ "x" \in Keys(pandas_vars)
    /\ Lookup(pandas_vars, "x") = "df2"
    /\ deleted = {}
    /\ instances = {}
    /\ ~first_show

\* C11: in every reachable state no name is both tracked and in the ignore set,
\* and every key of the snapshot of the last update cycle is tracked or in the
\* ignore set (hence in exactly one of them). Between two cycles no handler
\* changes the tracked names, the ignore set or the snapshot, so the state
\* after a cycle is the state the second part speaks of.
C11_TrackedIgnoredPartition ==
    /\ DOMAIN tracked \cap ignored = {}
    /\ \A n \in Keys(pandas_vars) : n \in DOMAIN tracked \/ n \in ignored

\* a cycle with both names in the snapshot left one tracked and the other one
\* in the ignore set
C11_Witness ==
    /\ Keys(pandas_vars) = {"x", "y"}
    /\ DOMAIN tracked = {"x"}
    /\ ignored = {"y"}
    /\ ~dtaler_frozen
    /\ new = <<>>


\* the step is an update cycle of the dtale view with the snapshot pandas_vars'
IsCycle ==
    /\ force_show' = show_next
    /\ ignore_next' = <<>>
    /\ show_next' = <<>>
    /\ DTalerUpdateVariablesCall(pandas_vars')

\* after the step the name is in the ignore set, not tracked, was not created
\* by the step, and every live instance belongs to a tracked name
IgnoredAfter(n) ==
    /\ n \in ignored'
    /\ n \notin DOMAIN tracked'
    /\ n \notin Elements(new')
    /\ instances' \subseteq {tracked'[m].data_id : m \in DOMAIN tracked'}

\* C22: in an update cycle, for a name of the snapshot of which no --show is
\* pending: while the view is frozen, a name that is not tracked ends in the
\* ignore set, untracked and without an instance; a name that is in the ignore
\* set stays there, untracked and without an instance, frozen or not and
\* whatever its value (so an auto-ignored name stays ignored after defrost);
\* and when the view is not frozen, a name that was not in the previous
\* snapshot and of which no --ignore is pending is tracked with a live instance.
C22_FrozenIgnoresNew ==
    [][IsCycle =>
           \A n \in DtaleNames :
               (n \in Keys(pandas_vars') /\ n \notin Elements(show_next)) =>
                   /\ (dtaler_frozen /\ n \notin DOMAIN tracked) => IgnoredAfter(n)
                   /\ n \in ignored => IgnoredAfter(n)
                   /\ (/\ ~dtaler_frozen
                       /\ n \notin Keys(pandas_vars)
                       /\ n \notin Elements(ignore_next)) =>
                          /\ n \in DOMAIN tracked'
                          /\ n \notin ignored'
                          /\ tracked'[n].data_id \in instances']_vars

\* C23: when a --show of a name is pending at an update cycle whose snapshot
\* has the name, the name is tracked with a live instance and not in the ignore
\* set after the cycle: frozen or not, whether the name was tracked, in the
\* ignore set (by --ignore or by the freeze) or had its instance deleted in
\* dtale, and whether or not an --ignore of it is pending as well (the two
\* queues keep no order between an --ignore and a --show).
C23_ShowWins ==
    [][IsCycle =>
           \A n \in DtaleNames :
               (n \in Keys(pandas_vars') /\ n \in Elements(show_next)) =>
                   /\ n \in DOMAIN tracked'
                   /\ n \notin ignored'
                   /\ tracked'[n].data_id \in instances']_vars

\* a cycle of the frozen view consumed a --show of x, cleaned up a record and
\* created the instance of x
C23_Witness ==
    /\ dtaler_frozen
    /\ force_show = <<"x">>
    /\ new = <<"x">>
    /\ "x" \in DOMAIN tracked
    /\ "x" \notin ignored
    /\ tracked["x"].data_id \in instances
    /\ DOMAIN tracked = {"x"}
    /\ deleted = {1}

\* C24: after every update cycle every tracked name and every name of the
\* ignore set is a key of the snapshot of that cycle: a name that left the
\* namespace is in neither of them. No handler other than the cycle changes the
\* tracked names, the ignore set or the snapshot, so this is an invariant.
C24_ForgetAbsent == (DOMAIN tracked \cup ignored) \subseteq Keys(pandas_vars)

\* C25: in every update cycle, frozen or not, a name that stays tracked (tracked
\* before and after, not created by the cycle) and whose snapshot value is
\* another object than the stored one keeps its data id, has the new object
\* stored, and its id is recorded as updated; the id of a tracked name whose
\* object is the stored one, and the id of a name created by the cycle, is not
\* recorded as updated.
C25_UpdateInPlace ==
    [][IsCycle =>
           \A n \in DOMAIN tracked' :
               IF n \in DOMAIN tracked /\ n \notin Elements(new')
               THEN /\ tracked'[n].data_id = tracked[n].data_id
                    /\ tracked'[n].pdf = Lookup(pandas_vars', n)
                    /\ tracked'[n].data_id \in updated'
                           <=> tracked[n].pdf # Lookup(pandas_vars', n)
               ELSE /\ n \in Elements(new')
                    /\ tracked'[n].pdf = Lookup(pandas_vars', n)
                    /\ tracked'[n].data_id \notin updated']_vars

\* a cycle of the frozen view found x bound to another object and updated its
\* record, and left the record of y, bound to the same object, alone
C25_Witness ==
    /\ dtaler_frozen
    /\ DOMAIN tracked = {"x", "y"}
    /\ updated = {tracked["x"].data_id}
    /\ tracked["x"].pdf = "df2"
    /\ tracked["y"].pdf = "df2"
    /\ new = <<>>
    /\ instances = {1, 2}
    /\ lost = {}

\* C29: an --ignore or a --show changes neither the tracked names, the ignore
\* set nor the dtale store when it is issued. An update cycle applies every
\* queued intent (a name with a pending --show is not in the ignore set after
\* the cycle, a name with a pending --ignore and no pending --show is; the
\* pending shows become force_show) and leaves both queues empty; a cycle
\* that starts with both queues empty applies no intent: no name of the
\* snapshot leaves the ignore set, and a tracked name of the snapshot whose
\* instance is live enters it only by the freeze, which does not touch tracked
\* names.
C29_IntentsConsumedOnce ==
    [][/\ (\E n \in DtaleNames : DTalerIgnoreVariable(n) \/ DTalerShowVariable(n)) =>
              UNCHANGED <<tracked, ignored, instances>>
       /\ DTalerUpdateVariablesCall(pandas_vars') =>
              /\ ignore_next' = <<>>
              /\ show_next' = <<>>
              /\ force_show' = show_next
              /\ Elements(show_next) \cap ignored' = {}
              /\ (Elements(ignore_next) \ Elements(show_next)) \subseteq ignored'
              /\ (ignore_next = <<>> /\ show_next = <<>>) =>
                     \A n \in Keys(pandas_vars') :
                         /\ n \in ignored => n \in ignored'
                         /\ (n \in DOMAIN tracked /\ ~ExternallyDeleted(n)) =>
                                n \in DOMAIN tracked']_vars

\* a cycle consumed an --ignore of x, which was tracked with a live instance:
\* x is in the ignore set, its record was cleaned up, the queues are empty
C29_Witness ==
    /\ ignored = {"x"}
    /\ "x" \in Keys(pandas_vars)
    /\ DOMAIN tracked = {}
    /\ deleted = {1}
    /\ instances = {}
    /\ lost = {}
    /\ ~dtaler_frozen
    /\ ignore_next = <<>>
    /\ show_next = <<>>
    /\ force_show = <<>>

\* C30: at the end of every update cycle every tracked name has a live
\* instance in the dtale store, two tracked names have different instances,
\* and every live instance is the one of a tracked name (the record of a name
\* that left the tracked names was cleaned up).
C30_RecordOwnership ==
    [][IsCycle =>
           /\ \A n \in DOMAIN tracked' : tracked'[n].data_id \in instances'
           /\ \A n, m \in DOMAIN tracked' : n # m => tracked'[n].data_id # tracked'[m].data_id
           /\ instances' \subseteq {tracked'[n].data_id : n \in DOMAIN tracked'}]_vars

C30_Witness ==
    /\ Keys(pandas_vars) = {"y"} /\ DOMAIN tracked = {"y"} /\ tracked["y"].data_id = 2
    /\ instances = {2} /\ deleted = {1} /\ ignored = {} /\ lost = {}

\* -------------------------------------------------------------------------
\* Claims on DTaler.draw (SpecDraw)
\* -------------------------------------------------------------------------

\* the step is update_variables followed by draw(force, output)
IsDraw(force) ==
    /\ force_show' = show_next
    /\ ignore_next' = <<>>
    /\ show_next' = <<>>
    /\ output'.data_id = output.data_id
    /\ DTalerRedraw(pandas_vars', force)

\* a name force-shown in the cycle of the step is tracked after it
TrackedForceShown == \E i \in 1..Len(force_show') : force_show'[i] \in DOMAIN tracked'

\* the draw of the step displayed the instance of name
Rendered(name) == output'.displayed = <<Instance(tracked'[name].data_id)>>

\* C26: in a non-forced draw after an update cycle, when a name force-shown in
\* the cycle is tracked, draw displays the instance of the last-requested
\* force-shown name that is tracked, whatever the cycle created, updated or
\* deleted; otherwise, when the cycle created a name, draw displays the
\* instance of the last created name.
C26_ForceShownThenNew ==
    [][((TrackedForceShown \/ new' # <<>>) /\ IsDraw(FALSE)) =>
           IF TrackedForceShown
           THEN \E i \in 1..Len(force_show') :
                    /\ force_show'[i] \in DOMAIN tracked'
                    /\ \A j \in (i + 1)..Len(force_show') : force_show'[j] \notin DOMAIN tracked'
                    /\ Rendered(force_show'[i])
           ELSE new' # <<>> =>
                    /\ new'[Len(new')] \in DOMAIN tracked'
                    /\ Rendered(new'[Len(new')])]_vars

C26_Witness ==
    /\ force_show = <<"x", "y">>
    /\ new = <<"y", "x">>
    /\ DOMAIN tracked = {"x", "y"}
    /\ tracked["y"].data_id = 1
    /\ tracked["x"].data_id = 2
    /\ output.displayed = <<Instance(1)>>
    /\ output.data_id = "2"

\* C27: in a non-forced draw after a cycle with no tracked force-shown name
\* and no created name, draw displays the instance whose id is the data_id of
\* the output when that id was updated in the cycle, and it displays nothing
\* when the cycle updated other instances only and did not delete the
\* displayed one.
C27_UpdatedDisplayed ==
    [][(~TrackedForceShown /\ new' = <<>> /\ updated' # {} /\ IsDraw(FALSE)) =>
           IF output.data_id \in Strs(updated')
           THEN /\ IntOf(output.data_id) \in instances'
                /\ output'.displayed = <<Instance(IntOf(output.data_id))>>
           ELSE output.data_id \notin Strs(deleted') => output'.displayed = <<>>]_vars

C27_Witness ==
    /\ force_show = <<>>
    /\ new = <<>>
    /\ DOMAIN tracked = {"x", "y"}
    /\ tracked["x"].data_id = 2
    /\ updated = {2}
    /\ output.data_id = "2"
    /\ output.displayed = <<Instance(2)>>
    /\ instances = {1, 2}

\* C28: in a non-forced draw after a cycle with no tracked force-shown name,
\* no created name and no update of the instance whose id is the data_id of
\* the output: when that instance was deleted in the cycle, draw displays the
\* instance of a tracked name, or the image when no name is tracked; when it
\* was not deleted, draw displays nothing.
C28_DeletedDisplayed ==
    [][(/\ ~TrackedForceShown /\ new' = <<>> /\ output.data_id \notin Strs(updated')
        /\ IsDraw(FALSE)) =>
           IF output.data_id \in Strs(deleted')
           THEN IF DOMAIN tracked' = {}
                THEN output'.displayed = <<Image>>
                ELSE \E n \in DOMAIN tracked' : Rendered(n)
           ELSE output'.displayed = <<>>]_vars

\* C31: an update cycle with the snapshot of the previous cycle (the same
\* objects), with no pending --ignore or --show and with every tracked instance
\* still alive in dtale, creates, updates and deletes no instance, leaves the
\* tracked names and the ignored names as they were, and the non-forced draw
\* after it displays nothing.
C31_SecondCycleIdle ==
    [][(/\ ignore_next = <<>> /\ show_next = <<>> /\ pandas_vars' = pandas_vars
        /\ RemovedInDtale(D) = {}
        /\ IsDraw(FALSE)) =>
           /\ new' = <<>> /\ updated' = {} /\ deleted' = {}
           /\ instances' = instances
           /\ tracked' = tracked
           /\ ignored' = ignored
           /\ output'.displayed = <<>>]_vars

\* =========================================================================
\* Claims on the ViewManager (SpecManager)
\* =========================================================================

\* the fields of the graph view in a record g, in the order of graphViewVars
GraphFields(g) ==
    <<g.traces, g.force_shown, g.changed, g.frozen, g.max_series_length,
      g.ylabel, g.width, g.height, g.series_dict, g.plotted_dfs, g.ns_with_series>>

\* the fields of the dtale view in a record d, in the order of dtaleViewVars
DtaleFields(d) ==
    <<d.tracked, d.ignored, d.dtaler_frozen, d.ignore_next, d.show_next, d.new,
      d.force_show, d.updated, d.deleted, d.first_show>>

\* the step delivered a call to the graph view, whose handler leaves g
ToGraph(g) == active = "graph" => graphViewVars' = GraphFields(g)

\* the step delivered a call to the dtale view, whose handler leaves d
ToDtale(d) == active = "dtale" => dtaleViewVars' = DtaleFields(d)

\* C18: every ViewManager command and every redraw is delivered to the active
\* view and to no other view: the fields of the active view after the step are
\* those its own handler leaves (for redraw: update_variables followed by draw
\* with the manager's flag as force), the fields of every inactive view are
\* unchanged, and after redraw the manager's changed flag is false.
C18_DispatchToActiveOnly ==
    [][/\ active = "graph" => UNCHANGED <<dtaleViewVars, instances>>
       /\ active = "dtale" => UNCHANGED graphViewVars
       /\ \A user_ns \in UserNamespaces :
              Redraw(user_ns) =>
                  /\ manager_changed' = FALSE
                  /\ ToGraph(Plot(UpdateVariables(G, PandasVars(user_ns)), manager_changed))
                  /\ active = "dtale" =>
                         \E order \in Orders(ToTrack(D, PandasVars(user_ns))) :
                             ToDtale(DTalerDraw(DTalerUpdateVariables(D, PandasVars(user_ns), order),
                                                manager_changed))
       /\ \A n \in ManagerNames :
              /\ ManagerIgnoreVariable(n) =>
                     /\ ToGraph(IgnoreVariable(G, n))
                     /\ ToDtale([D EXCEPT !.ignore_next = Append(@, n)])
              /\ ManagerShowVariable(n) =>
                     /\ ToGraph(ShowVariable(G, n))
                     /\ ToDtale([D EXCEPT !.show_next = Append(@, n)])
              /\ \A c \in ColourArgs : ManagerChangeColour(n, c) => ToGraph(ChangeColour(G, n, c))
              /\ \A l \in LabelArgs : ManagerRenameVariable(n, l) => ToGraph(RenameVariable(G, n, l))
       /\ ManagerFreeze =>
              /\ ToGraph(PlotterFreeze(G))
              /\ ToDtale([D EXCEPT !.dtaler_frozen = TRUE])
       /\ ManagerDefrost =>
              /\ ToGraph(PlotterDefrost(G))
              /\ ToDtale([D EXCEPT !.dtaler_frozen = FALSE])
       /\ \A m \in ManagerSampleArgs :
              ManagerUpdateMaxSeriesLength(m) => ToGraph(PlotterUpdateMaxSeriesLength(G, m))
       /\ \A l \in YlabelArgs : ManagerSetYlabel(l) => ToGraph(PlotterSetYlabel(G, l))
       /\ \A h \in HeightArgs : ManagerSetPlotHeight(h) => ToGraph(SetPlotHeight(G, h))
       /\ \A w \in WidthArgs : ManagerSetPlotWidth(w) => ToGraph(SetPlotWidth(G, w))
      ]_vars


\* C19: assigning active = v with v not a registered view raises ValueError and
\* leaves active and the changed flag as they were; otherwise active becomes v
\* and the changed flag is true exactly when v differs from the view that was
\* active. In every reachable state the active view is a registered view.
C19_SwitchActive ==
    /\ [](active \in ViewNames)
    /\ [][\A v \in ActiveArgs :
              SetActive(v) =>
                  IF v \in ViewNames
                  THEN ~raised' /\ active' = v /\ (manager_changed' <=> v # active)
                  ELSE raised' /\ UNCHANGED <<active, manager_changed>>]_vars

\* the first call was "active = dtale" with the graph view active
C19_Witness == calls = 1 /\ active = "dtale" /\ manager_changed /\ ~raised


\* the operations of the View interface that the dtale view does not implement
UnsupportedOps ==
    {"change_colour", "rename_variable", "update_max_series_length", "set_ylabel",
     "set_plot_height", "set_plot_width"}

\* the step is a call of the operation op of the ViewManager
OpStep(op) ==
    CASE op = "change_colour" ->
             \E n \in ManagerNames, c \in ColourArgs : ManagerChangeColour(n, c)
      [] op = "rename_variable" ->
             \E n \in ManagerNames, l \in LabelArgs : ManagerRenameVariable(n, l)
      [] op = "update_max_series_length" ->
             \E m \in ManagerSampleArgs : ManagerUpdateMaxSeriesLength(m)
      [] op = "set_ylabel" -> \E l \in YlabelArgs : ManagerSetYlabel(l)
      [] op = "set_plot_height" -> \E h \in HeightArgs : ManagerSetPlotHeight(h)
      [] op = "set_plot_width" -> \E w \in WidthArgs : ManagerSetPlotWidth(w)

\* the wordings by which a warning can name an operation
OperationTexts ==
    {"changing colours", "variable renaming", "max series length", "changing ylabel",
     "setting the plot height", "setting the plot width"}

\* C20: with the dtale view active, a call of an operation the view does not
\* implement (recolour, rename, set-length, set-label, set width, set height)
\* returns without raising, shows exactly one warning, which names the active
\* view and that operation (so it is the warning of no other operation), and
\* changes no field of any view nor of the manager.
C20_UnsupportedWarns ==
    [][active = "dtale" =>
           \A op \in UnsupportedOps :
               OpStep(op) =>
                   /\ ~raised'
                   /\ Len(toasts') = 1
                   /\ toasts'[1].type = "warning"
                   /\ \E what \in OperationTexts :
                          toasts'[1].name = active \o " does not implement " \o what
                   /\ \A other \in UnsupportedOps \ {op} : ~OpStep(other)
                   /\ UNCHANGED <<graphViewVars, dtaleViewVars, instances,
                                  active, manager_changed>>]_vars


SeriesOf(vs, n) ==
    IF IsSeriesIn(vs, n) THEN ValueIn(vs, n)
    ELSE LET i == CHOOSE i \in 1..Len(vs) :
                      /\ vs[i][2].class = "DataFrame"
                      /\ n \in ColumnNames(vs[i][1], vs[i][2])
             j == CHOOSE j \in 1..Len(vs[i][2].columns) :
                      DF_COLUMN_FORMAT_STRING(vs[i][1], vs[i][2].columns[j].name) = n
         IN  ColumnSeries(vs[i][2], vs[i][2].columns[j])

\* the step is an update cycle of the graph view
IsGraphCycle == fresh' /\ UpdateVariablesCall(pandas_vars')

Trackable(series) ==
    /\ series.class = "Series"
    /\ series.indexType = "DatetimeIndex"
    /\ \A i, j \in 1..Len(series.index) : i < j => series.index[i] < series.index[j]
    /\ series.dtype \in {"float64", "int64"}
    /\ Len(series.values) >= 2

\* the names the rule makes trackable in the snapshot: the variables that are
\* trackable series and the trackable columns of the dataframes
TrackableNames(vs) ==
    {vs[i][1] : i \in {j \in 1..Len(vs) : Trackable(vs[j][2])}}
      \cup UNION {{DF_COLUMN_FORMAT_STRING(vs[i][1], vs[i][2].columns[k].name) :
                      k \in {m \in 1..Len(vs[i][2].columns) :
                                Trackable(ColumnSeries(vs[i][2], vs[i][2].columns[m]))}} :
                     i \in {j \in 1..Len(vs) : vs[j][2].class = "DataFrame"}}

\* C33: the first update cycle raises nothing, and the names it tracks, each
\* with a trace, are the variables of the snapshot that are series on a
\* DatetimeIndex of distinct, non-decreasing timestamps with real numbers for
\* values and 2 rows or more, and the columns of its dataframes that are such
\* series, under the name "<dataframe> (<column>)".
C33_ClassifiedByRule ==
    [][(\E vs \in ClassifySnapshots : Classify(vs)) =>
           /\ ~raised'
           /\ DOMAIN series_dict' = TrackableNames(pandas_vars')
           /\ TraceNames(G') = TrackableNames(pandas_vars')]_vars

\* -------------------------------------------------------------------------
\* Claims on the changed flag of the Plotter (SpecFlag)
\* -------------------------------------------------------------------------

\* the tracked names whose series in the snapshot of the step differs from the
\* one their trace holds
Updating ==
    {n \in Eligible(pandas_vars') \cap DOMAIN series_dict \cap TraceNames(G) :
        GetItem(G, n).series # SeriesOf(pandas_vars', n)}

\* C34: an update cycle stores the new series of every tracked name whose data
\* changed in its trace, and the line of the trace shows it, whether the trace
\* is visible or hidden; when the traces whose data changed are all hidden and
\* the cycle adds and removes no name, the changed flag is left as it was; when
\* one of them is visible the changed flag is true after the cycle.
C34_HiddenUpdateStored ==
    [][IsGraphCycle =>
           /\ \A n \in Updating :
                  /\ n \in TraceNames(G')
                  /\ GetItem(G', n).series = SeriesOf(pandas_vars', n)
                  /\ GetItem(G', n).line.xdata = SeriesOf(pandas_vars', n).index
                  /\ GetItem(G', n).line.ydata = SeriesOf(pandas_vars', n).values
                  /\ n \in GetVisible(G) => changed'
           /\ (/\ Updating # {}
               /\ Updating \cap GetVisible(G) = {}
               /\ Eligible(pandas_vars') = DOMAIN series_dict) => changed' = changed]_vars

\* C37: a step that turns the changed flag from true to false is a draw, and
\* an update cycle that changes the data of a visible trace ends with the
\* changed flag true, frozen or not, whatever other names the snapshot adds.
C37_FlagKeptUntilPlot ==
    [][/\ (changed /\ ~changed') => \E force \in BOOLEAN : Draw(force)
       /\ (IsGraphCycle /\ Updating \cap GetVisible(G) # {}) => changed']_vars

\* =========================================================================
\* Claim on --show after a deletion (Spec)
\* =========================================================================

\* the traces of a variable: the trace of that name, and the traces of the
\* columns of the dataframe of that name
TracesOfVariable(n) ==
    {t \in TraceNames(G) : t = n \/ GetItem(G, t).df_name = n}

\* C35: --show of a name whose traces are all hidden, by --ignore or because
\* the variable left the namespace, a series or a dataframe with its column
\* traces, leaves every trace of the variable visible and in force_shown.
C35_ShowAfterDeletion ==
    [][\A n \in CommandNames :
          (/\ TracesOfVariable(n) # {}
           /\ TracesOfVariable(n) \cap GetVisible(G) = {}
           /\ ShowCmd(n)) =>
              /\ TracesOfVariable(n) \subseteq GetVisible(G')
              /\ TracesOfVariable(n) \subseteq force_shown']_vars

\* =========================================================================
\* Claim on the y axis label (SpecManager)
\* =========================================================================

\* the label asked for by set_ylabel(label): no label for the empty string
AskedYlabel(label) == IF label = "" THEN NoName ELSE label

\* C36: set_ylabel(label) on the graph view leaves the label asked for, no
\* label when the argument is the empty string; when the label asked for is the
\* current one it changes neither the label nor the changed flag; and the same
\* call made again changes nothing.
C36_YlabelSetOnlyWhenDifferent ==
    [][\A l \in YlabelArgs :
          (active = "graph" /\ ManagerSetYlabel(l)) =>
              /\ ylabel' = AskedYlabel(l)
              /\ AskedYlabel(l) = ylabel => changed' = changed
              /\ PlotterSetYlabel(G', l) = G']_vars

\* =========================================================================
\* Claim on the changed flag of the ViewManager (SpecManager)
\* =========================================================================

\* C38: the changed flag of the ViewManager is on after every switch to another
\* view, a step that turns it off is a redraw, and every redraw that
\* completes draws the active view with the flag as force and leaves it off:
\* no command between the switch and the redraw, among them the assignment of
\* the active view to itself that ends an %autoplot without --view, loses the
\* forced draw.
C38_ForcedRedrawKept ==
    [][/\ \A v \in ViewNames : (v # active /\ SetActive(v)) => manager_changed'
       /\ (manager_changed /\ ~manager_changed') =>
              \E user_ns \in UserNamespaces : Redraw(user_ns)
       /\ \A user_ns \in UserNamespaces :
              (Redraw(user_ns) /\ ~raised') =>
                  /\ ~manager_changed'
                  /\ (manager_changed /\ active = "graph") => ~changed'
                  /\ (manager_changed /\ active = "dtale") => output'.displayed # <<>>]_vars

\* =========================================================================
\* Claim on the lookups of the reconciliation (Spec)
\* =========================================================================

\* C39: in every reachable state of the graph view no update cycle has ended
\* with an error, and what _delete_trace looks up is there: every key of the
\* series store has a trace, every member of a group is a key of the series
\* store, a tracked name whose trace has a dataframe backreference is a member
\* of that group, and every visible trace that is not force-shown (the names
\* _hide_traces_for_deleted_vars passes to _delete_trace) is a key of the
\* series store.
C39_ReconciliationLookups ==
    /\ ~raised
    /\ DOMAIN series_dict \subseteq TraceNames(G)
    /\ \A df \in DOMAIN plotted_dfs : plotted_dfs[df] \subseteq DOMAIN series_dict
    /\ \A n \in DOMAIN series_dict :
           GetItem(G, n).df_name # NoName =>
               /\ GetItem(G, n).df_name \in DOMAIN plotted_dfs
               /\ n \in plotted_dfs[GetItem(G, n).df_name]
    /\ GetVisible(G) \ force_shown \subseteq DOMAIN series_dict

\* the cycle after "del x" has deleted the visible trace of a column of the
\* dataframe x, while the trace of the column that had been ignored, shown
\* again and is force-shown was left alone
C39_Witness ==
    /\ fresh
    /\ pandas_vars = <<>>
    /\ ~raised
    /\ TraceNames(G) = {"x (a)", "x (b)"}
    /\ GetVisible(G) = {"x (a)"}
    /\ force_shown = {"x (a)"}
    /\ series_dict = Store(EmptyDict, "x (a)", GetItem(G, "x (a)").series)
    /\ plotted_dfs = Store(EmptyDict, "x", {"x (a)"})

\* =========================================================================
\* Claim on the changes of the max series length (SpecManager)
\* =========================================================================

\* the threshold a Trace stores for a max length: 0 stands for no limit
Threshold(max_length) == IF max_length = 0 THEN Int64Max ELSE max_length

\* C40: update_max_series_length on the graph view with a negative max length
\* shows the error toast and leaves the traces and the threshold of the plotter
\* as they were; with a max length of 0 or more it raises no error, and leaves
\* the plotter with that threshold, every trace with the same threshold, and
\* the line of every trace with at least 2 points.
C40_MaxLengthKeepsDisplayable ==
    [][\A m \in ManagerSampleArgs :
          (active = "graph" /\ ManagerUpdateMaxSeriesLength(m)) =>
              IF m < 0
              THEN /\ toasts' = <<InvalidMaxLength(m)>>
                   /\ UNCHANGED <<traces, max_series_length>>
              ELSE /\ ~raised'
                   /\ max_series_length' = m
                   /\ \A i \in 1..Len(traces') :
                          /\ traces'[i].max_length = Threshold(m)
                          /\ Len(traces'[i].line.xdata) >= 2]_vars

====
